---- MODULE Spec2Model ----
(***************************************************************************)
(* A model of the pocket-lisp compiler front end: the Scanner              *)
(* (scanner.rs), the Token model (token.rs) and the recursive-descent      *)
(* Parser (parser.rs).                                                     *)
(*                                                                         *)
(* A source text is a sequence of one-character strings, the chars of      *)
(* Scanner::chars.  Indices are 0-based as in the code: chars[i] is        *)
(* source[i + 1].  Scanner::source is the same text as a &str, which Rust  *)
(* indexes by bytes: a char takes Utf8Len bytes of it, and the slices of   *)
(* make_token and check_keyword are taken by bytes with the char indices   *)
(* start and current.  A Rust panic (an index out of bounds, a slice that  *)
(* does not fall on char boundaries, a failed expect) is a terminal        *)
(* outcome: the scanner record carries the flag `panicked`, and a parse    *)
(* that panics ends in pc = "panicked".                                    *)
(***************************************************************************)
EXTENDS Integers, Sequences, FiniteSets, TLC

VARIABLES
    source,       \* Scanner::chars, the source text
    scanner,      \* the Scanner: [start, current, line, panicked]
    returns,      \* history: what each direct scan_token call returned, in order
    current,      \* Parser::current, the lookahead token
    program,      \* Parser::program
    had_error,    \* Parser::had_error
    panic_mode,   \* Parser::panic_mode
    last_error,   \* Parser::last_error
    pc,           \* position inside parse()
    frames,       \* the active expression_list calls, innermost last
    result,       \* the value returned by parse()
    errlog,       \* history: every call of error_at, in order, with its token,
                  \* its message and the number of forms in the program then
    top_starts,   \* history: the lookahead at every top-level expression_list call
    late_forms,   \* history: the top-level forms entered, their '(' advanced
                  \* past, after an error was recorded
    dispatches,   \* history: the lookahead after every '#' that expression saw
    events,       \* history: the lists that ended at Eof and the tokens that
                  \* expression refused, in order
    value,        \* emitter: the argument of unsigned_led128
    data,         \* emitter: the argument of encode_vector
    leb_out,      \* emitter: what unsigned_led128(value) returned
    vec_out       \* emitter: what encode_vector(data) returned

vars == <<source, scanner, returns, current, program, had_error, panic_mode,
          last_error, pc, frames, result, errlog, top_starts, late_forms,
          dispatches, events, value, data, leb_out, vec_out>>

emitter_vars == <<value, data, leb_out, vec_out>>

parser_vars == <<current, program, had_error, panic_mode, last_error, pc,
                 frames, result, errlog, top_starts, late_forms, dispatches,
                 events>>

(***************************************************************************)
(* Bounds of the model.                                                    *)
(***************************************************************************)
MaxScanLen == 6
MaxEofCalls == 2
MaxParseLen == 5
MaxBlankLen == 4
MaxNestLen == 5
MaxStringLen == 5
MaxNumberLen == 5
MaxWordLen == 4
MaxUtf8Len == 4
MaxLebValue == 16500
MaxDataLen == 130

(***************************************************************************)
(* Characters.                                                             *)
(***************************************************************************)
OOB == "OOB"   \* outcome of indexing chars past its end: the call panics
NUL == "NUL"   \* the character '\0'

Digits == {"0", "1", "2", "3", "4", "5", "6", "7", "8", "9"}

Letters ==
    {"a", "b", "c", "d", "e", "f", "g", "h", "i", "j", "k", "l", "m",
     "n", "o", "p", "q", "r", "s", "t", "u", "v", "w", "x", "y", "z",
     "A", "B", "C", "D", "E", "F", "G", "H", "I", "J", "K", "L", "M",
     "N", "O", "P", "Q", "R", "S", "T", "U", "V", "W", "X", "Y", "Z"}

is_digit(ch) == ch \in Digits

is_ascii_alphanumeric(ch) == ch \in Digits \cup Letters

is_symbol(ch) ==
    ch \in {"=", "+", "-", "*", "/", "\\", "&", "%", "$", "_", "!", "<", ">",
            "?", "'"}

(***************************************************************************)
(* Tokens (token.rs).                                                      *)
(***************************************************************************)
TokenNew(kind, start, src, line) ==
    [kind |-> kind, start |-> start, src |-> src, line |-> line]

TokenDefault == TokenNew("Init", 0, <<>>, 0)

\* What a caller holds when the scan_token call panicked instead of returning.
NoToken == TokenNew("Panic", 0, <<>>, 0)

(***************************************************************************)
(* Scanner (scanner.rs).                                                   *)
(***************************************************************************)
source_len == Len(source)

ScannerNew == [start |-> 0, current |-> 0, line |-> 1, panicked |-> FALSE]

\* chars[i]: Rust checks the index and panics past the end.
chars(i) == IF i >= 0 /\ i < source_len THEN source[i + 1] ELSE OOB

ScannerPanic(s) == [s EXCEPT !.panicked = TRUE]

is_at_end(s) == s.current = source_len

advance(s) ==
    IF s.panicked THEN s
    ELSE LET s1 == [s EXCEPT !.current = @ + 1]
         IN  IF chars(s1.current - 1) = OOB THEN ScannerPanic(s1) ELSE s1

peek(s) == chars(s.current)

peek_next(s) == IF is_at_end(s) THEN NUL ELSE chars(s.current + 1)

RECURSIVE advance_while_digits(_)
advance_while_digits(s) ==
    IF s.panicked \/ is_at_end(s) THEN s
    ELSE IF peek(s) = OOB THEN ScannerPanic(s)
    ELSE IF is_digit(peek(s)) THEN advance_while_digits(advance(s))
    ELSE s

\* while !is_at_end() && peek() != '#' && peek_next() != ';' { advance() }
RECURSIVE block_comment_body(_)
block_comment_body(s) ==
    IF s.panicked \/ is_at_end(s) THEN s
    ELSE IF peek(s) = OOB THEN ScannerPanic(s)
    ELSE IF peek(s) = "#" THEN s
    ELSE IF peek_next(s) = OOB THEN ScannerPanic(s)
    ELSE IF peek_next(s) = ";" THEN s
    ELSE block_comment_body(advance(s))

\* The ';#' branch of skip_whitespace: ';' '#', the loop, '#' ';'.
block_comment(s) == advance(advance(block_comment_body(advance(advance(s)))))

\* while !is_at_end() && peek() != '\n' { advance() }
RECURSIVE line_comment(_)
line_comment(s) ==
    IF s.panicked \/ is_at_end(s) THEN s
    ELSE IF peek(s) = OOB THEN ScannerPanic(s)
    ELSE IF peek(s) = "\n" THEN s
    ELSE line_comment(advance(s))

RECURSIVE skip_whitespace(_)
skip_whitespace(s) ==
    IF s.panicked \/ is_at_end(s) THEN s
    ELSE CASE peek(s) = OOB -> ScannerPanic(s)
           [] peek(s) = "\n" ->
                skip_whitespace(advance([s EXCEPT !.line = @ + 1]))
           [] peek(s) \in {" ", "\r", "\t", ","} ->
                skip_whitespace(advance(s))
           [] peek(s) = ";" ->
                IF peek_next(s) = OOB THEN ScannerPanic(s)
                ELSE IF peek_next(s) = "#" THEN skip_whitespace(block_comment(s))
                ELSE skip_whitespace(line_comment(s))
           [] OTHER -> s

Returned(tok, s) == [token |-> tok, scanner |-> s]

Panicked(s) == Returned(NoToken, ScannerPanic(s))

\* The chars of one byte in UTF-8: the ASCII chars that can be written in a
\* source of the model.
AsciiChars ==
    Digits \cup Letters
        \cup {" ", "\t", "\n", "\r", "\f", "!", "\"", "#", "$", "%", "&", "'", "(", ")",
              "*", "+", ",", "-", ".", "/", ":", ";", "<", "=", ">", "?", "@", "[",
              "\\", "]", "^", "_", "{", "|", "}", "~"}

\* Chars of two bytes in UTF-8 (U+0080 to U+07FF): those of the Latin-1
\* supplement.
TwoByteChars ==
    {"¡", "¢", "£", "¤", "¥", "¦", "§", "¨", "©", "ª", "«", "¬", "®", "¯",
     "°", "±", "²", "³", "´", "µ", "¶", "·", "¸", "¹", "º", "»", "¼", "½",
     "¾", "¿", "À", "Á", "Â", "Ã", "Ä", "Å", "Æ", "Ç", "È", "É", "Ê", "Ë",
     "Ì", "Í", "Î", "Ï", "Ð", "Ñ", "Ò", "Ó", "Ô", "Õ", "Ö", "×", "Ø", "Ù",
     "Ú", "Û", "Ü", "Ý", "Þ", "ß", "à", "á", "â", "ã", "ä", "å", "æ", "ç",
     "è", "é", "ê", "ë", "ì", "í", "î", "ï", "ð", "ñ", "ò", "ó", "ô", "õ",
     "ö", "÷", "ø", "ù", "ú", "û", "ü", "ý", "þ", "ÿ"}

\* Chars of three bytes in UTF-8 (U+0800 to U+FFFF).
ThreeByteChars == {"€", "→"}

\* char::len_utf8, on the chars above; a char that is in none of the three
\* sets is not a char of the model's sources.
Utf8Len(ch) ==
    CASE ch \in AsciiChars -> 1
      [] ch \in TwoByteChars -> 2
      [] ch \in ThreeByteChars -> 3

RECURSIVE CharsUpTo(_, _, _)
\* The number of chars that end at the byte index b, counted on from the
\* i chars that end at the byte index off; -1 when b is inside a char or
\* past the end of the source.
CharsUpTo(i, off, b) ==
    IF off = b THEN i
    ELSE IF off > b \/ i = source_len THEN -1
    ELSE CharsUpTo(i + 1, off + Utf8Len(source[i + 1]), b)

\* The number of chars before the byte index b, a char boundary.
CharsBefore(b) == CharsUpTo(0, 0, b)

\* str::is_char_boundary: the byte index b is the start of a char or the end
\* of the source.
is_char_boundary(b) == CharsBefore(b) # -1

\* &self.source[from..to] panics unless from <= to and both are char
\* boundaries of the source.
slice_panics(from, to) ==
    ~(from <= to /\ is_char_boundary(from) /\ is_char_boundary(to))

\* &self.source[from..to], from and to byte indices, when it does not panic.
source_slice(from, to) == SubSeq(source, CharsBefore(from) + 1, CharsBefore(to))

\* Token::new(token_type, self.start, &self.source[self.start..self.current],
\* self.line); NoToken when the slice panics.
make_token(s, token_type) ==
    IF slice_panics(s.start, s.current) THEN NoToken
    ELSE TokenNew(token_type, s.start, source_slice(s.start, s.current), s.line)

\* error_token that carries the line of the start of the source.
error_token_first_line(s, msg) == TokenNew("Error", 0, <<msg>>, 1)

error_token(s, msg) == TokenNew("Error", 0, <<msg>>, s.line)

\* self.make_token(kind) with the scanner left at s, unless a panic came first.
MadeToken(tok, s) == IF tok = NoToken THEN Panicked(s) ELSE Returned(tok, s)

Made(s, token_type) ==
    IF s.panicked THEN Panicked(s) ELSE MadeToken(make_token(s, token_type), s)

\* while !is_at_end() && peek() != '"' { if peek() == '\n' { line += 1 } advance() }
RECURSIVE string_body(_)
string_body(s) ==
    IF s.panicked \/ is_at_end(s) THEN s
    ELSE IF peek(s) = OOB THEN ScannerPanic(s)
    ELSE IF peek(s) = "\"" THEN s
    ELSE IF peek(s) = "\n"
         THEN string_body(advance([s EXCEPT !.line = @ + 1]))
         ELSE string_body(advance(s))

\* let token = self.make_token(String); self.advance(); token
string_closed(tok, s) == IF s.panicked THEN Panicked(s) ELSE Returned(tok, s)

string_end(s) ==
    IF s.panicked THEN Panicked(s)
    ELSE IF is_at_end(s) THEN Returned(error_token(s, "Unterminated string"), s)
    ELSE IF make_token(s, "String") = NoToken THEN Panicked(s)
    ELSE string_closed(make_token(s, "String"), advance(s))

string(s) == string_end(string_body([s EXCEPT !.start = s.current]))

number_end(s) ==
    IF s.panicked THEN Panicked(s)
    ELSE IF is_at_end(s) THEN Made(s, "IntegerNumber")
    ELSE IF peek(s) = OOB THEN Panicked(s)
    ELSE IF peek(s) = "."
         THEN Made(advance_while_digits(advance(s)), "FloatNumber")
    ELSE IF peek(s) = "/"
         THEN IF peek_next(s) = OOB THEN Panicked(s)
              ELSE IF ~is_digit(peek_next(s))
              THEN Returned(error_token(s, "Unterminated fraction number"), s)
              ELSE Made(advance_while_digits(advance(s)), "FractionNumber")
    ELSE Made(s, "IntegerNumber")

number(s) == number_end(advance_while_digits(s))

\* What a check_keyword call came to: the boolean it returned, or a panic.
KeywordChecked(holds) == [panicked |-> FALSE, holds |-> holds]

KeywordPanicked == [panicked |-> TRUE, holds |-> FALSE]

\* self.current - self.start == start + len
\*     && self.source[self.start + start..self.current] == *rest
check_keyword(s, start, len, rest) ==
    IF s.current - s.start # start + len THEN KeywordChecked(FALSE)
    ELSE IF slice_panics(s.start + start, s.current) THEN KeywordPanicked
    ELSE KeywordChecked(source_slice(s.start + start, s.current) = rest)

\* The token type, or "Panic" when a check_keyword call panicked.
identifier_type(s) ==
    IF check_keyword(s, 0, 5, <<"f", "a", "l", "s", "e">>).panicked THEN "Panic"
    ELSE IF check_keyword(s, 0, 5, <<"f", "a", "l", "s", "e">>).holds THEN "False"
    ELSE IF check_keyword(s, 0, 4, <<"t", "r", "u", "e">>).panicked THEN "Panic"
    ELSE IF check_keyword(s, 0, 4, <<"t", "r", "u", "e">>).holds THEN "True"
    ELSE "Identifier"

\* while !is_at_end() && (peek().is_ascii_alphanumeric() || is_symbol(peek()))
RECURSIVE identifier_body(_)
identifier_body(s) ==
    IF s.panicked \/ is_at_end(s) THEN s
    ELSE IF peek(s) = OOB THEN ScannerPanic(s)
    ELSE IF is_ascii_alphanumeric(peek(s)) \/ is_symbol(peek(s))
         THEN identifier_body(advance(s))
    ELSE s

identifier_end(s) ==
    IF s.panicked \/ chars(s.start) = OOB THEN Panicked(s)
    ELSE IF identifier_type(s) = "Panic" THEN Panicked(s)
    ELSE Made(s, identifier_type(s))

identifier(s) == identifier_end(identifier_body(s))

\* while !is_at_end() && peek().is_ascii_alphanumeric() { advance() }
RECURSIVE keyword_body(_)
keyword_body(s) ==
    IF s.panicked \/ is_at_end(s) THEN s
    ELSE IF peek(s) = OOB THEN ScannerPanic(s)
    ELSE IF is_ascii_alphanumeric(peek(s)) THEN keyword_body(advance(s))
    ELSE s

keyword(s) ==
    IF peek(s) = OOB THEN Panicked(s)      \* let peek = self.peek();
    ELSE IF is_at_end(s) \/ ~is_ascii_alphanumeric(peek(s))
         THEN Made(s, "Identifier")
    ELSE Made(keyword_body(s), "Keyword")

SingleCharKind(c) ==
    CASE c = "(" -> "LeftParen"
      [] c = ")" -> "RightParen"
      [] c = "{" -> "LeftBrace"
      [] c = "}" -> "RightBrace"
      [] c = "[" -> "LeftSquare"
      [] c = "]" -> "RightSquare"
      [] c = "#" -> "Dispatch"
      [] OTHER -> "Error"

\* at_end_token with the cursor moved on, as after every other token.
at_end_token_consuming(s) ==
    IF make_token(s, "Eof") = NoToken THEN Panicked(s)
    ELSE Returned(make_token(s, "Eof"), [s EXCEPT !.current = @ + 1])

\* if self.is_at_end() { return self.make_token(TokenType::Eof); }
at_end_token(s) == Made(s, "Eof")

\* scan_token: let c = self.advance(); return match c { .. }
scan_char(c, s) ==
    IF s.panicked THEN Panicked(s)
    ELSE IF c = ":" THEN keyword(s)
    ELSE IF is_digit(c) THEN number(s)
    ELSE IF c = "-" /\ peek(s) = OOB THEN Panicked(s)
    ELSE IF c = "-" /\ is_digit(peek(s)) THEN number(s)
    ELSE IF is_ascii_alphanumeric(c) \/ is_symbol(c) THEN identifier(s)
    ELSE IF c = "\"" THEN string(s)
    ELSE IF SingleCharKind(c) # "Error" THEN Made(s, SingleCharKind(c))
    ELSE Returned(error_token(s, "Unexpected character."), s)

\* scan_token: self.start = self.current; if self.is_at_end() { .. }
scan_start(s) ==
    IF is_at_end(s) THEN at_end_token(s) ELSE scan_char(chars(s.current), advance(s))

scan_skipped(s) ==
    IF s.panicked THEN Panicked(s) ELSE scan_start([s EXCEPT !.start = s.current])

scan_token(s) == scan_skipped(skip_whitespace(s))

(***************************************************************************)
(* Parser (parser.rs).  The operators below work on a record of the        *)
(* parser's fields; the actions further down copy it back to the           *)
(* variables.                                                              *)
(***************************************************************************)
ParserState ==
    [scanner |-> scanner, current |-> current, had_error |-> had_error,
     panic_mode |-> panic_mode, last_error |-> last_error, errlog |-> errlog]

\* format!("{}", n) for a usize.
RECURSIVE Decimal(_)
Decimal(n) ==
    LET d == <<"0", "1", "2", "3", "4", "5", "6", "7", "8", "9">>
    IN  IF n < 10 THEN <<d[n + 1]>> ELSE Decimal(n \div 10) \o <<d[(n % 10) + 1]>>

\* error_location without the case of Eof.
error_location_no_end(tok) ==
    IF tok.kind = "Error" THEN tok.src ELSE <<" at '">> \o tok.src \o <<"'">>

\* let token = if .. " at end" .. else if Error { token.src } else { " at '{}'" }
error_location(tok) ==
    IF tok.kind = "Eof" THEN <<" at end">>
    ELSE IF tok.kind = "Error" THEN tok.src
    ELSE <<" at '">> \o tok.src \o <<"'">>

Logged(p, tok, message) ==
    [p EXCEPT !.errlog = Append(@, [token |-> tok, message |-> message,
                                    forms |-> Len(program)])]

\* error_at without the early return on panic_mode: every error is recorded.
error_at_every_error(p, tok, message) ==
    [Logged(p, tok, message) EXCEPT
        !.panic_mode = TRUE,
        !.had_error = TRUE,
        !.last_error = <<"[line ">> \o Decimal(tok.line) \o <<"] Error">>
                       \o error_location(tok) \o <<": ">> \o message]

\* error_at that sets panic_mode and last_error and leaves had_error alone.
error_at_panic_mode_only(p, tok, message) ==
    IF p.panic_mode THEN Logged(p, tok, message)
    ELSE [Logged(p, tok, message) EXCEPT
            !.panic_mode = TRUE,
            !.last_error = <<"[line ">> \o Decimal(tok.line) \o <<"] Error">>
                           \o error_location(tok) \o <<": ">> \o message]

error_at(p, tok, message) ==
    IF p.panic_mode THEN Logged(p, tok, message)
    ELSE [Logged(p, tok, message) EXCEPT
            !.panic_mode = TRUE,
            !.had_error = TRUE,
            !.last_error = <<"[line ">> \o Decimal(tok.line) \o <<"] Error">>
                           \o error_location(tok) \o <<": ">> \o message]

error_at_current(p, message) == error_at(p, p.current, message)

\* Parser::advance: scan until a token that is no Error token.
RECURSIVE parser_advance(_)
\* advance_scanned that skips an Error token without reporting it.
advance_scanned_unreported(p, r) ==
    IF r.scanner.panicked THEN [p EXCEPT !.scanner = r.scanner]
    ELSE IF r.token.kind # "Error"
    THEN [p EXCEPT !.scanner = r.scanner, !.current = r.token]
    ELSE parser_advance([p EXCEPT !.scanner = r.scanner, !.current = r.token])

\* self.current = self.scanner.scan_token(): when the call panics nothing is
\* assigned and current keeps its value.
advance_scanned(p, r) ==
    IF r.scanner.panicked THEN [p EXCEPT !.scanner = r.scanner]
    ELSE IF r.token.kind # "Error"
    THEN [p EXCEPT !.scanner = r.scanner, !.current = r.token]
    ELSE parser_advance(
           error_at([p EXCEPT !.scanner = r.scanner, !.current = r.token],
                    r.token, r.token.src))

parser_advance(p) == advance_scanned(p, scan_token(p.scanner))

parser_peek(p) == p.current

is_end(p) == parser_peek(p).kind = "Eof"

consume(p, kind, message) ==
    IF p.current.kind = kind THEN parser_advance(p)
    ELSE IF ~p.had_error THEN error_at_current(p, message)
    ELSE p

\* error_unexpected_token that names the '#' and not the token after it.
error_unexpected_token_names_dispatch(p) == <<"Unexpected token ", "Dispatch">>

\* Err(Error::msg(format!("Unexpected token {}", self.current.kind)))
error_unexpected_token(p) == <<"Unexpected token ", p.current.kind>>

\* EndToken that takes ')' for the closer of every list.
EndTokenAlwaysParen(start_token) == "RightParen"

EndToken(start_token) ==
    CASE start_token = "LeftParen" -> "RightParen"
      [] start_token = "LeftBrace" -> "RightBrace"
      [] start_token = "LeftSquare" -> "RightSquare"

\* ExpectedMessage with the two kinds in the other order.
ExpectedMessageSwapped(expected, actual) ==
    <<"Expected ", actual, ", but get ", expected>>

ExpectedMessage(expected, actual) == <<"Expected ", expected, ", but get ", actual>>

(***************************************************************************)
(* Literal values: str::parse::<i64>() and str::parse::<f64>(), with the  *)
(* Err on which the expect of the parser panics.                           *)
(***************************************************************************)
DigitValue(ch) == CHOOSE v \in 0..9 : Decimal(v) = <<ch>>

RECURSIVE ParseDigits(_)
\* The number a run of digits stands for.
ParseDigits(ds) ==
    IF ds = <<>> THEN 0
    ELSE 10 * ParseDigits(SubSeq(ds, 1, Len(ds) - 1)) + DigitValue(ds[Len(ds)])

AllDigits(ds) == \A i \in 1..Len(ds) : is_digit(ds[i])

\* The least number of a set of numbers.
Least(S) == CHOOSE j \in S : \A k \in S : j <= k

\* The digits without the zeros in front.
StripZeros(ds) ==
    SubSeq(ds, Least({j \in 1..Len(ds) : ds[j] # "0"} \cup {Len(ds) + 1}), Len(ds))

RECURSIVE DigitsLessOrEqual(_, _)
\* a <= b for two runs of digits of one length.
DigitsLessOrEqual(a, b) ==
    IF a = <<>> THEN TRUE
    ELSE IF DigitValue(a[1]) # DigitValue(b[1]) THEN DigitValue(a[1]) < DigitValue(b[1])
    ELSE DigitsLessOrEqual(Tail(a), Tail(b))

\* The digits of i64::MAX, 9223372036854775807.
I64MaxDigits ==
    <<"9", "2", "2", "3", "3", "7", "2", "0", "3", "6", "8", "5", "4", "7", "7",
      "5", "8", "0", "7">>

\* The digits of the magnitude of i64::MIN, 9223372036854775808.
I64MinDigits == SubSeq(I64MaxDigits, 1, 18) \o <<"8">>

\* The digits are those of a number of at most the number of limit.
DigitsAtMost(ds, limit) ==
    \/ Len(ds) < Len(limit)
    \/ Len(ds) = Len(limit) /\ DigitsLessOrEqual(ds, limit)

HasSign(src) == src # <<>> /\ src[1] \in {"-", "+"}

Unsigned(src) == IF HasSign(src) THEN Tail(src) ELSE src

\* str::parse::<i64>() is Ok: an optional sign and one or more digits of a
\* number within i64.
I64Parses(src) ==
    /\ Unsigned(src) # <<>>
    /\ AllDigits(Unsigned(src))
    /\ DigitsAtMost(StripZeros(Unsigned(src)),
                    IF src[1] = "-" THEN I64MinDigits ELSE I64MaxDigits)

\* The Err of str::parse, on which expect panics.
ParseError == "ParseError"

\* str::parse::<i64>()
ParseI64(src) ==
    IF ~I64Parses(src) THEN ParseError
    ELSE IF src[1] = "-" THEN 0 - ParseDigits(Tail(src))
    ELSE ParseDigits(Unsigned(src))

IndexOf(src, ch) == CHOOSE i \in 1..Len(src) : src[i] = ch /\ \A j \in 1..(i - 1) : src[j] # ch

RECURSIVE Split(_, _)
\* str::split(sep), collected.
Split(src, sep) ==
    IF \A i \in 1..Len(src) : src[i] # sep THEN <<src>>
    ELSE <<SubSeq(src, 1, IndexOf(src, sep) - 1)>>
         \o Split(SubSeq(src, IndexOf(src, sep) + 1, Len(src)), sep)

\* u8::to_ascii_lowercase
UpperCase ==
    <<"A", "B", "C", "D", "E", "F", "G", "H", "I", "J", "K", "L", "M",
      "N", "O", "P", "Q", "R", "S", "T", "U", "V", "W", "X", "Y", "Z">>

LowerCase ==
    <<"a", "b", "c", "d", "e", "f", "g", "h", "i", "j", "k", "l", "m",
      "n", "o", "p", "q", "r", "s", "t", "u", "v", "w", "x", "y", "z">>

to_ascii_lowercase(ch) ==
    IF \E i \in 1..26 : UpperCase[i] = ch
    THEN LowerCase[CHOOSE i \in 1..26 : UpperCase[i] = ch]
    ELSE ch

Lowered(src) == [i \in 1..Len(src) |-> to_ascii_lowercase(src[i])]

\* The words str::parse::<f64>() takes after the optional sign, in any case.
InfWords == {<<"i", "n", "f">>, <<"i", "n", "f", "i", "n", "i", "t", "y">>}

NanWords == {<<"n", "a", "n">>}

\* The number of digits of src from the position i on, up to the first char
\* that is not a digit.
DigitRun(src, i) ==
    Least({j \in i..Len(src) : ~is_digit(src[j])} \cup {Len(src) + 1}) - i

HasPoint(body) ==
    DigitRun(body, 1) < Len(body) /\ body[DigitRun(body, 1) + 1] = "."

\* The digits before the point.
IntegerDigits(body) == SubSeq(body, 1, DigitRun(body, 1))

\* The digits after the point.
FractionDigits(body) ==
    IF HasPoint(body)
    THEN SubSeq(body, DigitRun(body, 1) + 2,
                DigitRun(body, 1) + 1 + DigitRun(body, DigitRun(body, 1) + 2))
    ELSE <<>>

\* What follows the digits and the point: nothing, or the exponent.
AfterDecimal(body) ==
    SubSeq(body,
           Len(IntegerDigits(body)) + Len(FractionDigits(body))
               + (IF HasPoint(body) THEN 2 ELSE 1),
           Len(body))

\* An exponent: 'e' or 'E', an optional sign and one or more digits.
IsExponent(rest) ==
    /\ rest # <<>>
    /\ to_ascii_lowercase(rest[1]) = "e"
    /\ Unsigned(Tail(rest)) # <<>>
    /\ AllDigits(Unsigned(Tail(rest)))

\* A number of str::parse::<f64>(): digits with an optional point, at least
\* one digit in all, and an optional exponent.
IsDecimal(body) ==
    /\ Len(IntegerDigits(body)) + Len(FractionDigits(body)) > 0
    /\ AfterDecimal(body) = <<>> \/ IsExponent(AfterDecimal(body))

\* str::parse::<f64>() is Ok: an optional sign and then inf, infinity, nan
\* or a number.
F64Parses(src) ==
    \/ Lowered(Unsigned(src)) \in InfWords \cup NanWords
    \/ IsDecimal(Unsigned(src))

RECURSIVE ExponentDigits(_, _)
\* The number of the exponent's digits, which stops growing from 65536 on.
ExponentDigits(ds, exponent) ==
    IF ds = <<>> THEN exponent
    ELSE ExponentDigits(Tail(ds),
                        IF exponent < 65536 THEN 10 * exponent + DigitValue(ds[1])
                        ELSE exponent)

\* The exponent written after the digits, 0 when there is none.
ExponentOf(rest) ==
    IF rest = <<>> THEN 0
    ELSE IF rest[2] = "-" THEN 0 - ExponentDigits(SubSeq(rest, 3, Len(rest)), 0)
    ELSE ExponentDigits(Unsigned(Tail(rest)), 0)

(***************************************************************************)
(* Natural numbers of any size, for the rounding of a decimal to the       *)
(* nearest f64: a number is the sequence of its digits in base LimbBase,   *)
(* the lowest first and the highest not 0; <<>> is 0.                      *)
(***************************************************************************)
LimbBits == 15

LimbBase == 2 ^ LimbBits

\* The limbs of x without the zeros at the high end.
BigTrim(x) ==
    SubSeq(x, 1, Cardinality({i \in 1..Len(x) : \E j \in i..Len(x) : x[j] # 0}))

\* The limbs of a lower and an upper part of a number, and the carry out of
\* the upper part.
Joined(limbs, upper) == [limbs |-> limbs \o upper.limbs, carry |-> upper.carry]

RECURSIVE MulLimbs(_, _, _, _, _)
\* The limbs mid + 1..b of x times m, after the limbs below them.
MulUpper(x, mid, b, m, lower) ==
    Joined(lower.limbs, MulLimbs(x, mid + 1, b, m, lower.carry))

\* The limbs a..b of x times m, plus carry: the limbs of the product and
\* the carry out of the limb b, the lower half of the limbs first.
MulLimbs(x, a, b, m, carry) ==
    IF a = b
    THEN [limbs |-> <<(x[a] * m + carry) % LimbBase>>,
          carry |-> (x[a] * m + carry) \div LimbBase]
    ELSE MulUpper(x, (a + b) \div 2, b, m, MulLimbs(x, a, (a + b) \div 2, m, carry))

\* The limbs, and the carry as one more limb.
WithCarry(r) == IF r.carry = 0 THEN r.limbs ELSE Append(r.limbs, r.carry)

\* x * m + carry, for m <= LimbBase and carry < LimbBase.
BigMulSmall(x, m, carry) ==
    IF x = <<>> THEN IF carry = 0 THEN <<>> ELSE <<carry>>
    ELSE WithCarry(MulLimbs(x, 1, Len(x), m, carry))

BigDouble(x) == BigMulSmall(x, 2, 0)

RECURSIVE BigFromDigits(_, _)
\* acc * 10^Len(ds) + the number the decimal digits ds stand for, four
\* digits at a time.
BigFromDigits(ds, acc) ==
    IF ds = <<>> THEN acc
    ELSE IF Len(ds) >= 4
    THEN BigFromDigits(SubSeq(ds, 5, Len(ds)),
                       BigMulSmall(acc, 10000, ParseDigits(SubSeq(ds, 1, 4))))
    ELSE BigFromDigits(Tail(ds), BigMulSmall(acc, 10, DigitValue(ds[1])))

\* x * 10^16
BigTimes10To16(x) ==
    BigMulSmall(BigMulSmall(BigMulSmall(BigMulSmall(x, 10000, 0), 10000, 0), 10000, 0),
                10000, 0)

RECURSIVE BigPow10(_, _)
\* x * 10^n, sixteen powers at a time.
BigPow10(x, n) ==
    IF n = 0 \/ x = <<>> THEN x
    ELSE IF n >= 16 THEN BigPow10(BigTimes10To16(x), n - 16)
    ELSE BigPow10(BigMulSmall(x, 10, 0), n - 1)

RECURSIVE SmallBitLen(_)
SmallBitLen(v) == IF v = 0 THEN 0 ELSE 1 + SmallBitLen(v \div 2)

\* The number of binary digits of x.
BigBitLen(x) ==
    IF x = <<>> THEN 0 ELSE LimbBits * (Len(x) - 1) + SmallBitLen(x[Len(x)])

\* x * 2^k
BigShl(x, k) ==
    IF x = <<>> THEN <<>>
    ELSE [i \in 1..(k \div LimbBits) |-> 0] \o BigMulSmall(x, 2 ^ (k % LimbBits), 0)

\* -1, 0 or 1 as x is less than, equal to or greater than y: the longer
\* is the greater, and of two of one length the one greater in the highest
\* limb that differs.
BigCmp(x, y) ==
    IF Len(x) # Len(y) THEN IF Len(x) < Len(y) THEN -1 ELSE 1
    ELSE IF x = y THEN 0
    ELSE IF \E i \in 1..Len(x) : x[i] < y[i] /\ \A j \in (i + 1)..Len(x) : x[j] = y[j]
    THEN -1 ELSE 1

\* The limb i of x less the limb i of y and the borrow.
LimbDiff(x, y, i, borrow) == x[i] - (IF i <= Len(y) THEN y[i] ELSE 0) - borrow

RECURSIVE SubLimbs(_, _, _, _, _)
\* The limbs mid + 1..b of x less those of y, after the limbs below them.
SubUpper(x, y, mid, b, lower) ==
    Joined(lower.limbs, SubLimbs(x, y, mid + 1, b, lower.carry))

\* The limbs a..b of x less those of y and the borrow: the limbs of the
\* difference and the borrow from the limb above b.
SubLimbs(x, y, a, b, borrow) ==
    IF a = b
    THEN [limbs |-> <<(LimbDiff(x, y, a, borrow) + LimbBase) % LimbBase>>,
          carry |-> IF LimbDiff(x, y, a, borrow) < 0 THEN 1 ELSE 0]
    ELSE SubUpper(x, y, (a + b) \div 2, b, SubLimbs(x, y, a, (a + b) \div 2, borrow))

\* x - y, for x >= y.
BigSub(x, y) == IF x = <<>> THEN <<>> ELSE BigTrim(SubLimbs(x, y, 1, Len(x), 0).limbs)

(***************************************************************************)
(* f64 values, kept as f64::to_bits in 16 hexadecimal digits: the sign,    *)
(* the 11 bits of the exponent and the 52 bits of the fraction.            *)
(***************************************************************************)
HexDigits ==
    <<"0", "1", "2", "3", "4", "5", "6", "7", "8", "9", "a", "b", "c", "d", "e", "f">>

\* The n binary digits of v, the highest first.
BitsOf(v, n) == [i \in 1..n |-> (v \div (2 ^ (n - i))) % 2]

Zeros(n) == [i \in 1..n |-> 0]

\* The 16 hexadecimal digits of 64 bits.
HexOf(bits) ==
    [i \in 1..16 |->
        HexDigits[8 * bits[4 * i - 3] + 4 * bits[4 * i - 2] + 2 * bits[4 * i - 1]
                  + bits[4 * i] + 1]]

SignBit(neg) == IF neg THEN 1 ELSE 0

F64Zero(neg) == HexOf(<<SignBit(neg)>> \o Zeros(63))

F64Infinity(neg) == HexOf(<<SignBit(neg)>> \o BitsOf(2047, 11) \o Zeros(52))

F64NaN(neg) == HexOf(<<SignBit(neg)>> \o BitsOf(2047, 11) \o <<1>> \o Zeros(51))

RECURSIVE BitsIncrement(_, _)
\* The bits of the number of the first n bits plus one, the bits after the
\* n-th, which the carry went through, set to 0.
BitsIncrement(bits, n) ==
    IF n = 0 THEN Zeros(Len(bits))
    ELSE IF bits[n] = 0
    THEN SubSeq(bits, 1, n - 1) \o <<1>> \o Zeros(Len(bits) - n)
    ELSE BitsIncrement(bits, n - 1)

\* The digits of a first and a second run of digits, and what is left after
\* the second.
JoinedBits(bits, second) == [bits |-> bits \o second.bits, rest |-> second.rest]

RECURSIVE QuotientBits(_, _, _)
\* The n binary digits that follow a first run of digits.
QuotientTail(den, n, first) == JoinedBits(first.bits, QuotientBits(first.rest, den, n))

\* The first n binary digits of num / den < 2, the one of the units first,
\* and what is left of num, doubled once for each digit; the first half of
\* the digits first.
QuotientBits(num, den, n) ==
    IF n = 0 THEN [bits |-> <<>>, rest |-> num]
    ELSE IF n > 1 THEN QuotientTail(den, n - n \div 2, QuotientBits(num, den, n \div 2))
    ELSE IF BigCmp(num, den) >= 0
    THEN [bits |-> <<1>>, rest |-> BigDouble(BigSub(num, den))]
    ELSE [bits |-> <<0>>, rest |-> BigDouble(num)]

\* Round to nearest, ties to even: the digits cut off are more than half a
\* unit of the last digit kept, or half a unit and the last digit is odd.
RoundsUp(rest, den, field) ==
    \/ BigCmp(rest, den) > 0
    \/ BigCmp(rest, den) = 0 /\ field[63] = 1

\* The exponent and fraction fields, rounded; the carry of the rounding
\* runs from the fraction into the exponent, up to infinity.
F64Rounded(neg, field, rest, den) ==
    HexOf(<<SignBit(neg)>>
          \o (IF RoundsUp(rest, den, field) THEN BitsIncrement(field, 63) ELSE field))

\* A normal number 2^e * 1.f: the 53 digits of num / den without the first.
F64Normal(neg, e, q, den) ==
    F64Rounded(neg, BitsOf(e + 1023, 11) \o Tail(q.bits), q.rest, den)

\* A subnormal number 2^-1022 * 0.f: the e + 1075 digits of num / den that
\* lie above 2^-1075.
F64Subnormal(neg, e, q, den) ==
    F64Rounded(neg, Zeros(11) \o Zeros(52 - Len(q.bits)) \o q.bits, q.rest, den)

\* The f64 nearest to 2^e * num / den, for den <= num < 2 * den.
F64OfRatio(neg, num, den, e) ==
    IF e > 1023 THEN F64Infinity(neg)
    ELSE IF e < -1075 THEN F64Zero(neg)
    ELSE IF e >= -1022 THEN F64Normal(neg, e, QuotientBits(num, den, 53), den)
    ELSE F64Subnormal(neg, e, QuotientBits(num, den, e + 1075), den)

\* The f64 nearest to 2^e * num / den, num and den of one length in bits.
F64OfAligned(neg, num, den, e) ==
    IF BigCmp(num, den) >= 0 THEN F64OfRatio(neg, num, den, e)
    ELSE F64OfRatio(neg, BigDouble(num), den, e - 1)

\* The f64 nearest to num / den, e the length of num less the one of den.
F64OfFraction(neg, num, den, e) ==
    IF e >= 0 THEN F64OfAligned(neg, num, BigShl(den, e), e)
    ELSE F64OfAligned(neg, BigShl(num, 0 - e), den, e)

\* The f64 nearest to num / den.
F64Nearest(neg, num, den) ==
    F64OfFraction(neg, num, den, BigBitLen(num) - BigBitLen(den))

\* The f64 nearest to digits * 10^e10, digits without leading zeros: 0 and
\* infinity where the number is below half the least f64 or above the
\* greatest.
F64OfDecimal(neg, digits, e10) ==
    IF digits = <<>> \/ Len(digits) + e10 < -324 THEN F64Zero(neg)
    ELSE IF Len(digits) + e10 > 310 THEN F64Infinity(neg)
    ELSE IF e10 >= 0 THEN F64Nearest(neg, BigPow10(BigFromDigits(digits, <<>>), e10), <<1>>)
    ELSE F64Nearest(neg, BigFromDigits(digits, <<>>), BigPow10(<<1>>, 0 - e10))

\* The value of a number: its digits, scaled by the exponent less the
\* number of the digits after the point.
DecimalValue(neg, body) ==
    F64OfDecimal(neg, StripZeros(IntegerDigits(body) \o FractionDigits(body)),
                 ExponentOf(AfterDecimal(body)) - Len(FractionDigits(body)))

\* str::parse::<f64>(): the nearest f64, as the hexadecimal digits of its
\* bits.
ParseF64(src) ==
    IF ~F64Parses(src) THEN ParseError
    ELSE IF Lowered(Unsigned(src)) \in InfWords THEN F64Infinity(src[1] = "-")
    ELSE IF Lowered(Unsigned(src)) \in NanWords THEN F64NaN(src[1] = "-")
    ELSE DecimalValue(src[1] = "-", Unsigned(src))

LiteralKinds ==
    {"True", "False", "String", "IntegerNumber", "FloatNumber", "FractionNumber",
     "Identifier", "Keyword"}

OpenerKinds == {"LeftParen", "LeftSquare", "LeftBrace"}

\* The node Parser::expression builds for a literal token.
LiteralNode(tok) ==
    CASE tok.kind = "True" -> [type |-> "BooleanLiteral", val |-> TRUE]
      [] tok.kind = "False" -> [type |-> "BooleanLiteral", val |-> FALSE]
      [] tok.kind = "String" -> [type |-> "StringLiteral", val |-> tok.src]
      [] tok.kind = "IntegerNumber" ->
            [type |-> "IntegerNumberLiteral", val |-> ParseI64(tok.src)]
      [] tok.kind = "FloatNumber" ->
            [type |-> "FloatNumberLiteral", val |-> ParseF64(tok.src)]
      [] tok.kind = "FractionNumber" ->
            [type |-> "FractionNumberLiteral",
             val |-> <<ParseI64(Split(tok.src, "/")[1]),
                       ParseI64(Split(tok.src, "/")[2])>>]
      [] tok.kind = "Identifier" -> [type |-> "Identifier", val |-> tok.src]
      [] tok.kind = "Keyword" -> [type |-> "Keyword", val |-> tok.src]

\* An expect on the value of the token panics, before the token is advanced
\* past.
LiteralPanics(tok) ==
    CASE tok.kind = "IntegerNumber" -> ~I64Parses(tok.src)
      [] tok.kind = "FloatNumber" -> ~F64Parses(tok.src)
      [] tok.kind = "FractionNumber" ->
            \E k \in 1..Len(Split(tok.src, "/")) : ~I64Parses(Split(tok.src, "/")[k])
      [] OTHER -> FALSE

\* val[1] is out of bounds, after the token was advanced past: the slice of
\* a FractionNumber token has no '/'.
FractionIndexPanics(tok) ==
    tok.kind = "FractionNumber" /\ Len(Split(tok.src, "/")) < 2

\* The node Parser::expression wraps a finished list in.
ListNode(wrap, items) == [type |-> wrap, items |-> items]

WrapOf(start_token) ==
    CASE start_token = "LeftParen" -> "FunctionCall"
      [] start_token = "LeftSquare" -> "Array"
      [] start_token = "LeftBrace" -> "Map"

Frame(start_token, wrap) ==
    [start_token |-> start_token, end_token |-> EndToken(start_token),
     items |-> <<>>, wrap |-> wrap]

(***************************************************************************)
(* Source texts.                                                           *)
(***************************************************************************)
Strings(alphabet, n) == UNION {[1..k -> alphabet] : k \in 0..n}

ScanAlphabet == {"\n", ";", "#", "\"", "a"}

\* Quotes, backslashes and newlines, for the strings.
StringAlphabet == {"\"", "\\", "a", "\n"}

\* Digits, sign, point and slash, for the numbers.
NumberAlphabet == {"1", "-", ".", "/", "a", " "}

\* Letters, digits, symbols and the colon, for the identifiers and keywords.
WordAlphabet == {":", "a", "1", "+", "-", "(", " "}

\* The words identifier_type compares, and words next to them.
ValueWords ==
    {<<"t", "r", "u", "e">>, <<"f", "a", "l", "s", "e">>, <<"t", "r", "u">>,
     <<"t", "r", "u", "e", "s">>, <<"f", "a", "l", "s">>, <<"T", "r", "u", "e">>,
     <<"f", "a", "l", "s", "e", "1">>}

ValueSources ==
    {pre \o w \o post : pre \in {<<>>, <<" ">>, <<"(">>, <<"_">>}, w \in ValueWords,
                        post \in {<<>>, <<" ">>, <<")">>, <<"-">>}}

\* A char of two bytes among chars of one byte.
Utf8Alphabet == {"é", " ", "a", "(", "\""}

\* Chars of two and of three bytes in front of a token.
WideCharSources ==
    {<<"ü">>, <<"ß", "a">>, <<"€">>, <<"€", " ", "a">>, <<"€", " ", " ", "a", "b">>,
     <<"→", "é", " ", " ", " ", "(", ")">>}

Utf8Sources ==
    Strings(Utf8Alphabet, MaxUtf8Len) \cup {<<"é", " ">> \o w : w \in ValueWords}
        \cup WideCharSources

ScanSources ==
    Strings(ScanAlphabet, MaxScanLen) \cup Strings(StringAlphabet, MaxStringLen)
        \cup Strings(NumberAlphabet, MaxNumberLen)
        \cup Strings(WordAlphabet, MaxWordLen) \cup ValueSources \cup Utf8Sources

(***************************************************************************)
(* The scanner driven directly, as by the scanner's tests: scan_token is   *)
(* called again and again on one scanner.                                  *)
(***************************************************************************)
\* The emitter is not called by the scanner or the parser.
EmitterIdle ==
    /\ value = 0
    /\ data = <<>>
    /\ leb_out = <<>>
    /\ vec_out = <<>>

ParserFresh ==
    /\ current = TokenDefault
    /\ program = <<>>
    /\ had_error = FALSE
    /\ panic_mode = FALSE
    /\ last_error = <<>>
    /\ pc = "new"
    /\ frames = <<>>
    /\ result = [kind |-> "None"]
    /\ errlog = <<>>
    /\ top_starts = <<>>
    /\ late_forms = 0
    /\ dispatches = <<>>
    /\ events = <<>>

ScanInit ==
    /\ source \in ScanSources
    /\ scanner = ScannerNew
    /\ returns = <<>>
    /\ ParserFresh
    /\ EmitterIdle

EofCalls == Cardinality({i \in 1..Len(returns) : returns[i].token.kind = "Eof"})

LastToken == IF returns = <<>> THEN TokenDefault ELSE returns[Len(returns)].token

ScanToken ==
    /\ ~scanner.panicked
    /\ EofCalls < MaxEofCalls
    /\ LET r == scan_token(scanner)
       IN  /\ returns' = Append(returns, r)
           /\ scanner' = r.scanner
    /\ UNCHANGED <<emitter_vars, source, parser_vars>>

ScanNext == ScanToken

ScanSpec == ScanInit /\ [][ScanNext]_vars

(***************************************************************************)
(* parse(), one step of its control flow per action.  pc is "new" before   *)
(* the call, "loop" at the head of the while loop of parse, "list" at the  *)
(* head of the loop of the innermost expression_list, "break" once the     *)
(* while loop was left by break, "done" after the return and "panicked"    *)
(* when a scan_token call or an expect on a number panicked.               *)
(***************************************************************************)
ParseAlphabet == {"(", ")", "[", "#", "a", "~", "\n"}

NestAlphabet == {"(", ")", "[", "]", "{", "}"}

BlankAlphabet == {" ", "\t", "\r", ",", "\n", ";", "#", "a"}

Lexemes ==
    {<<"t", "r", "u", "e">>, <<"f", "a", "l", "s", "e">>, <<"-", "1", "2">>,
     <<"1", ".", "5", "0">>, <<"-", "1", "/", "2">>, <<":", "k">>,
     <<"\"", "s", "\"">>, <<"{", "}">>}

\* The integers next to the two ends of i64: i64::MAX + 1 and i64::MIN - 1.
LongLexemes == {I64MinDigits, <<"-">> \o SubSeq(I64MaxDigits, 1, 18) \o <<"9">>}

LexemeSources ==
    {l : l \in Lexemes \cup LongLexemes}
        \cup {<<"(">> \o l \o <<")">> : l \in Lexemes \cup LongLexemes}

\* A char of two bytes in front of forms.
Utf8ParseAlphabet == {"é", " ", "(", "1", ")"}

\* n times the char ch.
Repeated(ch, n) == [i \in 1..n |-> ch]

\* Float tokens behind chars of two bytes: the token's slice lies as many
\* bytes to the left of its chars, on an exponent, on inf or nan, or on text
\* that is no number.
ShiftedFloatSources ==
    {<<"é", "é", " ", " ", "(", ":", "1", "e", "-", "5", ".", "0", ")">>,
     Repeated("é", 5) \o Repeated(" ", 5)
         \o <<"(", ";", "#", "1", "1", "e", "5", "#", ";", "1", ".", "5", ")">>,
     Repeated("é", 5) \o Repeated(" ", 5)
         \o <<"(", ";", "#", "1", "i", "n", "f", "#", ";", "1", ".", "5", ")">>,
     Repeated("é", 5) \o Repeated(" ", 5)
         \o <<"(", ";", "#", "1", "N", "a", "N", "#", ";", "1", ".", "5", ")">>,
     <<"é", " ", "(", "1", ".", "5", ")">>,
     <<"(", "1", "2", "3", "4", "5", "6", "7", "8", "9", "0", "1", "2", "3", "4",
       "5", "6", "7", "8", "9", "0", ".", "5", ")">>}

\* Lists nested three deep, closed and unclosed, and closed by the closer of
\* another list; lists of two items of different types.
DeepNestSources ==
    {<<"(", "[", "{", "}", "]", ")">>, <<"(", "[", "(", ")", "]", ")">>,
     <<"(", "[", "]", "{", "}", ")">>, <<"(", "{", "}", "(", ")", ")">>,
     <<"(", "[", "(", ")", "{", "}", "]", ")">>,
     <<"(", "{", "[", "]", "}", ")">>, <<"(", "(", "[", "]", ")", ")">>,
     <<"(", "[", "(", ")", "(", ")", "]", ")">>,
     <<"(", "[", "{", "}", "]", ")", "(", ")">>,
     <<"(", "[", "{", "}", "]">>, <<"(", "[", "{", "}", ")", ")">>,
     <<"(", "[", "{", "]", "]", ")">>, <<"(", "[", "{", "}", "]", "]">>}

ParseSources ==
    Strings(ParseAlphabet, MaxParseLen) \cup Strings(NestAlphabet, MaxNestLen)
        \cup DeepNestSources
        \cup Strings(BlankAlphabet, MaxBlankLen) \cup LexemeSources
        \cup Strings(Utf8ParseAlphabet, MaxUtf8Len) \cup ShiftedFloatSources

ParseInit ==
    /\ source \in ParseSources
    /\ scanner = ScannerNew
    /\ returns = <<>>
    /\ ParserFresh
    /\ EmitterIdle

\* Copy the parser's fields back; a panic inside scan_token ends the parse.
Commit(p, next_pc) ==
    /\ scanner' = p.scanner
    /\ current' = p.current
    /\ had_error' = p.had_error
    /\ panic_mode' = p.panic_mode
    /\ last_error' = p.last_error
    /\ errlog' = p.errlog
    /\ pc' = IF p.scanner.panicked THEN "panicked" ELSE next_pc

\* parse: self.advance();
ParseBegin ==
    /\ pc = "new"
    /\ Commit(parser_advance(ParserState), "loop")
    /\ UNCHANGED <<emitter_vars, source, returns, program, frames, result, top_starts, late_forms,
                   dispatches, events>>

\* parse: one turn of the while loop up to the call expression_list(LeftParen),
\* which either fails on its start token and returns Ok(vec![]) (parse then
\* breaks, had_error being set) or advances past the '(' and enters its loop.
TopLevelForm ==
    /\ pc = "loop"
    /\ ~is_end(ParserState)
    /\ top_starts' = Append(top_starts, current)
    /\ late_forms' = late_forms
                      + (IF had_error /\ current.kind = "LeftParen" THEN 1 ELSE 0)
    /\ IF current.kind # "LeftParen"
       THEN /\ Commit(error_at_current(ParserState,
                         ExpectedMessage("LeftParen", current.kind)), "break")
            /\ frames' = frames
       ELSE /\ Commit(parser_advance(ParserState), "list")
            /\ frames' = Append(frames, Frame("LeftParen", "Top"))
    /\ UNCHANGED <<emitter_vars, source, returns, program, result, dispatches, events>>

Top == frames[Len(frames)]

Outer == SubSeq(frames, 1, Len(frames) - 1)

\* PushItem that puts the node in front of the items of the list.
PushItemFront(fs, node) ==
    [fs EXCEPT ![Len(fs)] = [@ EXCEPT !.items = <<node>> \o @]]

PushItem(fs, node) ==
    [fs EXCEPT ![Len(fs)] = [@ EXCEPT !.items = Append(@, node)]]

\* ListReturn in which parse appends the form without looking at had_error.
ListReturnAppends(p) ==
    IF Top.wrap = "Top"
    THEN /\ frames' = Outer
         /\ program' = IF p.scanner.panicked THEN program ELSE Append(program, Top.items)
         /\ Commit(p, IF p.had_error THEN "break" ELSE "loop")
    ELSE /\ frames' = IF p.scanner.panicked THEN frames
                      ELSE PushItem(Outer, ListNode(Top.wrap, Top.items))
         /\ program' = program
         /\ Commit(p, "list")

\* expression_list after its loop: the list goes back to expression (which
\* wraps it in a node) or to parse (which stops if an error was recorded and
\* appends the form to the program otherwise).
ListReturn(p) ==
    IF Top.wrap = "Top"
    THEN /\ frames' = Outer
         /\ program' = IF p.had_error \/ p.scanner.panicked THEN program
                       ELSE Append(program, Top.items)
         /\ Commit(p, IF p.had_error THEN "break" ELSE "loop")
    ELSE /\ frames' = IF p.scanner.panicked THEN frames
                      ELSE PushItem(Outer, ListNode(Top.wrap, Top.items))
         /\ program' = program
         /\ Commit(p, "list")

\* expression_list: the loop ends on the end token, which is advanced past,
\* or on Eof, which is an error.
\* What the history keeps of a step of the innermost list: the lookahead, the
\* opener of the list and the number of error_at calls made before.
Event(what) ==
    [what |-> what, token |-> current, start_token |-> Top.start_token,
     errors |-> Len(errlog)]

ListClose ==
    /\ pc = "list"
    /\ current.kind = Top.end_token \/ is_end(ParserState)
    /\ IF current.kind # Top.end_token
       THEN /\ ListReturn(error_at_current(ParserState,
                            ExpectedMessage(Top.end_token, current.kind)))
            /\ events' = Append(events, Event("unclosed"))
       ELSE /\ ListReturn(parser_advance(ParserState))
            /\ events' = events
    /\ UNCHANGED <<emitter_vars, source, returns, result, top_starts, late_forms, dispatches>>

\* InList without the is_end test of the loop.
InListUntilEndToken == pc = "list" /\ current.kind # Top.end_token

InList == pc = "list" /\ ~(current.kind = Top.end_token \/ is_end(ParserState))

\* Back at the head of the innermost list's loop with the frames fs.
Continue(p, fs) ==
    /\ Commit(p, "list")
    /\ frames' = IF p.scanner.panicked THEN frames ELSE fs

\* expression: a literal token becomes a node and is advanced past; the
\* expect on a number that does not parse panics.
ExpressionLiteral ==
    /\ InList
    /\ current.kind \in LiteralKinds
    /\ IF LiteralPanics(current)
       THEN /\ pc' = "panicked"
            /\ UNCHANGED <<scanner, current, had_error, panic_mode, last_error,
                           errlog, frames>>
       ELSE IF FractionIndexPanics(current)
       THEN /\ Commit(parser_advance(ParserState), "panicked")
            /\ frames' = frames
       ELSE Continue(parser_advance(ParserState), PushItem(frames, LiteralNode(current)))
    /\ UNCHANGED <<emitter_vars, source, returns, program, result, top_starts, late_forms,
                   dispatches, events>>

\* expression: '(' '[' '{' call expression_list(token.kind), whose start token
\* check passes; it advances past the opener and enters its loop.
ExpressionOpen ==
    /\ InList
    /\ current.kind \in OpenerKinds
    /\ Continue(parser_advance(ParserState),
                Append(frames, Frame(current.kind, WrapOf(current.kind))))
    /\ UNCHANGED <<emitter_vars, source, returns, program, result, top_starts, late_forms,
                   dispatches, events>>

\* Propagate in which parse breaks on the Err without recording it.
PropagateUnrecorded(p, message) ==
    /\ Commit(p, "break")
    /\ frames' = <<>>

\* An Err travels through every `?` up to parse, which records it at the
\* current token unless an error was recorded before, and breaks.
Propagate(p, message) ==
    /\ Commit(IF p.had_error THEN p ELSE error_at_current(p, message), "break")
    /\ frames' = <<>>

\* expression after the '#': a '(' starts the list of an AnonymousFunction,
\* any other token is an Err.
Dispatched(p) ==
    /\ dispatches' = IF p.scanner.panicked THEN dispatches
                     ELSE Append(dispatches, parser_peek(p))
    /\ IF p.scanner.panicked THEN Continue(p, frames)
       ELSE IF parser_peek(p).kind = "LeftParen"
       THEN Continue(parser_advance(p),
                     Append(frames, Frame("LeftParen", "AnonymousFunction")))
       ELSE Propagate(p, error_unexpected_token(p))

ExpressionDispatch ==
    /\ InList
    /\ current.kind = "Dispatch"
    /\ Dispatched(parser_advance(ParserState))
    /\ UNCHANGED <<emitter_vars, source, returns, program, result, top_starts, late_forms,
                   events>>

\* expression: Eof gives Ok(Empty) without advancing; every other kind (a
\* closer, Init) is an Err.
ExpressionOther ==
    /\ InList
    /\ current.kind \notin LiteralKinds \cup OpenerKinds \cup {"Dispatch"}
    /\ IF current.kind = "Eof"
       THEN /\ frames' = PushItem(frames, [type |-> "Empty"])
            /\ UNCHANGED <<scanner, current, had_error, panic_mode, last_error,
                           errlog, pc, events>>
       ELSE /\ Propagate(ParserState, error_unexpected_token(ParserState))
            /\ events' = Append(events, Event("unexpected"))
    /\ UNCHANGED <<emitter_vars, source, returns, program, result, top_starts, late_forms,
                   dispatches>>

Ok(prog) == [kind |-> "Ok", program |-> prog]

Err(error) == [kind |-> "Err", error |-> error]

Return(p) ==
    /\ Commit(p, "done")
    /\ result' = IF p.scanner.panicked THEN result
                 ELSE IF p.had_error THEN Err(p.last_error)
                 ELSE Ok(program)

\* parse: after the loop, consume(Eof, ..) and the return.
ParseEnd ==
    /\ \/ pc = "loop" /\ is_end(ParserState)
       \/ pc = "break"
    /\ Return(consume(ParserState, "Eof", <<"Expect end of expression.">>))
    /\ UNCHANGED <<emitter_vars, source, returns, program, frames, top_starts, late_forms,
                   dispatches, events>>

ParseNext ==
    \/ ParseBegin
    \/ TopLevelForm
    \/ ListClose
    \/ ExpressionLiteral
    \/ ExpressionOpen
    \/ ExpressionDispatch
    \/ ExpressionOther
    \/ ParseEnd

ParseSpec == ParseInit /\ [][ParseNext]_vars

(***************************************************************************)
(* Emitter (emitter.rs).  unsigned_led128 hands its u64 to                 *)
(* leb128::write::unsigned, which writes the low seven bits of the value,  *)
(* shifts it right by seven and sets the continuation bit of the byte      *)
(* while bits are left.  The values of the model are far below 2^64, so    *)
(* no step wraps.                                                          *)
(***************************************************************************)
RECURSIVE leb128_write_unsigned(_)
leb128_write_unsigned(val) ==
    IF val \div 128 # 0
    THEN <<(val % 128) + 128>> \o leb128_write_unsigned(val \div 128)
    ELSE <<val % 128>>

RECURSIVE leb128_write_no_continuation(_)
leb128_write_no_continuation(val) ==
    IF val \div 128 # 0
    THEN <<val % 128>> \o leb128_write_no_continuation(val \div 128)
    ELSE <<val % 128>>

\* unsigned_led128 that never sets the continuation bit.
unsigned_led128_no_continuation(v) == leb128_write_no_continuation(v)

unsigned_led128(v) == leb128_write_unsigned(v)

\* encode_vector that puts the length after the data.
encode_vector_length_last(d) == d \o unsigned_led128(Len(d))

\* [unsigned_led128(data.len() as u64), data].concat()
encode_vector(d) == unsigned_led128(Len(d)) \o d

\* The arguments of unsigned_led128: every value up to MaxLebValue, which
\* covers the encodings of one, two and three bytes, and values at the
\* borders of the encodings of four and five bytes.
LebValues ==
    0..MaxLebValue \cup {2097151, 2097152, 268435455, 268435456, 2147483647}

\* The arguments of encode_vector: n bytes that count up from a seed.
ByteVector(n, seed) == [i \in 1..n |-> (seed + 7 * i) % 256]

ByteVectors == {ByteVector(n, seed) : n \in 0..MaxDataLen, seed \in {0, 121, 250}}

EmitInit ==
    /\ source = <<>>
    /\ scanner = ScannerNew
    /\ returns = <<>>
    /\ ParserFresh
    /\ \/ value \in LebValues /\ data = <<>>
       \/ value = 0 /\ data \in ByteVectors
    /\ leb_out = <<>>
    /\ vec_out = <<>>

\* leb_out and vec_out are empty until the call: no result of either function
\* is empty.
UnsignedLeb128 ==
    /\ leb_out = <<>>
    /\ leb_out' = unsigned_led128(value)
    /\ UNCHANGED <<source, scanner, returns, parser_vars, value, data, vec_out>>

EncodeVector ==
    /\ vec_out = <<>>
    /\ vec_out' = encode_vector(data)
    /\ UNCHANGED <<source, scanner, returns, parser_vars, value, data, leb_out>>

EmitNext == UnsignedLeb128 \/ EncodeVector

EmitSpec == EmitInit /\ [][EmitNext]_vars

(***************************************************************************)
(* Properties of the scanner, checked under ScanSpec.                      *)
(***************************************************************************)
Calls == 1..Len(returns)

IsPanic(r) == r.token.kind = "Panic"

\* The cursor before the i-th scan_token call.
CursorBefore(i) == IF i = 1 THEN 0 ELSE returns[i - 1].scanner.current

\* The index of the first character of the token the i-th call returned: the
\* opening quote for a string, terminated or not.
FirstChar(i) ==
    LET r == returns[i]
    IN  IF r.token.kind = "String" \/ r.token.src = <<"Unterminated string">>
        THEN r.scanner.start - 1
        ELSE r.scanner.start

\* C1: scan_token is safe on every source: no call reads chars at an index
\* at or past source_len (which panics), every call returns a token, and
\* start <= current <= source_len holds after it.
ScanTokenSafe ==
    /\ ~scanner.panicked
    /\ \A i \in Calls :
          /\ ~IsPanic(returns[i])
          /\ returns[i].scanner.start <= returns[i].scanner.current
          /\ returns[i].scanner.current <= source_len

\* C8: Eof is absorbing: after a call returned Eof, a further call returns
\* the same Eof token and leaves start, current and line as they were.
EofAbsorbing ==
    [][LastToken.kind = "Eof" => LastToken' = LastToken /\ scanner' = scanner]_vars

\* C8 witness: a second Eof was returned after an Error token and an Eof.
EofTwiceAfterError ==
    \E i, j \in Calls :
        /\ i < j
        /\ j < Len(returns)
        /\ returns[i].token.kind = "Error"
        /\ returns[j].token.kind = "Eof"
        /\ returns[j + 1].token.kind = "Eof"

NewlinesBefore(i) == Cardinality({k \in 1..i : source[k] = "\n"})

\* A token that has a newline inside it: a string, terminated or not.
SpansLines(i) ==
    \E k \in (FirstChar(i) + 1)..returns[i].scanner.current : source[k] = "\n"

\* C9: the line of every returned token is 1 plus the number of newlines
\* before the token's first character.  Stated here for the tokens that lie
\* on one line, for which the line of the first and of the last character
\* are the same; a string that spans lines carries the line of its closing
\* quote, as the test scan_lines expects.
TokenLineIsStartLine ==
    \A i \in Calls :
        (~IsPanic(returns[i]) /\ ~SpansLines(i))
            => returns[i].token.line = 1 + NewlinesBefore(FirstChar(i))

PlainWhitespace == {" ", "\r", "\t", ",", "\n"}

\* A block comment opens at index q and is closed by the first '#;' at or
\* after q + 2, which starts at index j.
ClosedAt(q, j) ==
    /\ chars(q) = ";" /\ chars(q + 1) = "#"
    /\ j >= q + 2
    /\ chars(j) = "#" /\ chars(j + 1) = ";"
    /\ \A k \in (q + 2)..(j - 1) : ~(chars(k) = "#" /\ chars(k + 1) = ";")

\* C10: a block comment that skip_whitespace meets (at the cursor, or after
\* plain whitespace) is skipped through its closing '#;' and no further: the
\* cursor gets past the closer, the returned token starts after it, and it
\* starts right after it when a token character stands there.
BlockCommentSkipped ==
    \A i \in Calls : \A q \in 0..source_len : \A j \in 0..source_len :
        (/\ q >= CursorBefore(i)
         /\ \A k \in CursorBefore(i)..(q - 1) : chars(k) \in PlainWhitespace
         /\ ClosedAt(q, j))
        => /\ returns[i].scanner.current >= j + 2
           /\ ~IsPanic(returns[i]) => FirstChar(i) >= j + 2
           /\ (~IsPanic(returns[i]) /\ chars(j + 2) \notin PlainWhitespace \cup {";", OOB})
                 => FirstChar(i) = j + 2

\* The token of the i-th call starts at index q: only plain whitespace
\* stands between the cursor before the call and q.
TokenAt(i, q) ==
    /\ q >= CursorBefore(i)
    /\ q < source_len
    /\ chars(q) \notin PlainWhitespace \cup {";"}
    /\ \A k \in CursorBefore(i)..(q - 1) : chars(k) \in PlainWhitespace

RECURSIVE BackslashRun(_, _)
\* The number of backslashes that stand right before index j, after index q.
BackslashRun(q, j) ==
    IF j - 1 > q /\ chars(j - 1) = "\\" THEN 1 + BackslashRun(q, j - 1) ELSE 0

\* The unescaped quotes after the opening quote at index q.
UnescapedQuotes(q) ==
    {j \in (q + 1)..(source_len - 1) :
        chars(j) = "\"" /\ BackslashRun(q, j) % 2 = 0}

Min(S) == CHOOSE m \in S : \A n \in S : m <= n

\* C11: a '"' starts a String token that runs to the next unescaped '"': its
\* slice is the text between the two quotes, a '"' after a backslash does not
\* end it, and without a closing quote the token is the Error token
\* "Unterminated string".
StringRunsToUnescapedQuote ==
    \A i \in Calls : \A q \in 0..(source_len - 1) :
        (TokenAt(i, q) /\ chars(q) = "\"") =>
            IF UnescapedQuotes(q) = {}
            THEN /\ returns[i].token.kind = "Error"
                 /\ returns[i].token.src = <<"Unterminated string">>
            ELSE /\ returns[i].token.kind = "String"
                 /\ returns[i].token.src = SubSeq(source, q + 2, Min(UnescapedQuotes(q)))
                 /\ returns[i].scanner.current = Min(UnescapedQuotes(q)) + 1

RECURSIVE DigitRunEnd(_)
\* The index of the first character at or after i that is no digit, or
\* source_len.
DigitRunEnd(i) ==
    IF i < source_len /\ is_digit(chars(i)) THEN DigitRunEnd(i + 1) ELSE i

\* A number starts at index q: a digit, or '-' followed by a digit.
NumberAt(q) ==
    \/ is_digit(chars(q))
    \/ chars(q) = "-" /\ is_digit(chars(q + 1))

\* The index after the initial digit run of the number that starts at q.
InitialRunEnd(q) == DigitRunEnd(IF chars(q) = "-" THEN q + 1 ELSE q)

\* The token of the i-th call is of the kind given and its slice is the text
\* from index q up to index to, where the cursor is left.
IsToken(i, kind, q, to) ==
    /\ returns[i].token.kind = kind
    /\ returns[i].token.src = SubSeq(source, q + 1, to)
    /\ returns[i].scanner.current = to

\* C12: a number is classified by what follows its initial digit run: '.'
\* and a digit give FloatNumber, '/' and a digit give FractionNumber, '/'
\* and anything else (the end of the source included) give the Error token
\* "Unterminated fraction number", and everything else gives IntegerNumber,
\* whose slice is the optional '-' and the digit run.
NumberClassified ==
    \A i \in Calls : \A q \in 0..(source_len - 1) :
        (TokenAt(i, q) /\ NumberAt(q)) =>
            LET e == InitialRunEnd(q)
            IN  CASE chars(e) = "." /\ is_digit(chars(e + 1)) ->
                        IsToken(i, "FloatNumber", q, DigitRunEnd(e + 1))
                  [] chars(e) = "/" /\ is_digit(chars(e + 1)) ->
                        IsToken(i, "FractionNumber", q, DigitRunEnd(e + 1))
                  [] chars(e) = "/" /\ ~is_digit(chars(e + 1)) ->
                        /\ returns[i].token.kind = "Error"
                        /\ returns[i].token.src = <<"Unterminated fraction number">>
                  [] OTHER -> IsToken(i, "IntegerNumber", q, e)

RECURSIVE AlphanumericRunEnd(_)
\* The index of the first character at or after i that is not alphanumeric,
\* or source_len.
AlphanumericRunEnd(i) ==
    IF i < source_len /\ is_ascii_alphanumeric(chars(i))
    THEN AlphanumericRunEnd(i + 1) ELSE i

\* C13: a ':' followed by an alphanumeric character starts a Keyword token,
\* whose slice is the ':' and the maximal alphanumeric run; a ':' followed by
\* anything else, or by the end of the source, is the Identifier token ":".
KeywordOrLoneColon ==
    \A i \in Calls : \A q \in 0..(source_len - 1) :
        (TokenAt(i, q) /\ chars(q) = ":") =>
            IF is_ascii_alphanumeric(chars(q + 1))
            THEN IsToken(i, "Keyword", q, AlphanumericRunEnd(q + 1))
            ELSE IsToken(i, "Identifier", q, q + 1)

IsWordChar(ch) == is_ascii_alphanumeric(ch) \/ is_symbol(ch)

RECURSIVE WordRunEnd(_)
\* The index of the first character at or after i that is neither
\* alphanumeric nor a symbol, or source_len.
WordRunEnd(i) == IF i < source_len /\ IsWordChar(chars(i)) THEN WordRunEnd(i + 1) ELSE i

WordKind(src) ==
    IF src = <<"t", "r", "u", "e">> THEN "True"
    ELSE IF src = <<"f", "a", "l", "s", "e">> THEN "False"
    ELSE "Identifier"

\* C14: an alphanumeric or symbol character that does not start a number
\* starts an identifier token wherever it stands, the last character of the
\* source included; the token takes the maximal run of alphanumeric and
\* symbol characters and is True for "true", False for "false" and
\* Identifier for every other slice.
IdentifierScanned ==
    \A i \in Calls : \A q \in 0..(source_len - 1) :
        (TokenAt(i, q) /\ IsWordChar(chars(q)) /\ ~NumberAt(q)) =>
            IsToken(i, WordKind(SubSeq(source, q + 1, WordRunEnd(q + 1))), q,
                    WordRunEnd(q + 1))

\* The calls that returned a token with a slice of the source.
SliceCalls == {i \in Calls : returns[i].token.kind \notin {"Error", "Panic"}}

\* The source positions (0-based) of the slice of the i-th call's token.
Range(i) ==
    returns[i].token.start
        ..(returns[i].token.start + Len(returns[i].token.src) - 1)

\* C15: the slice of every token that is no Error token is the source text
\* consumed for it, from its start to the cursor, the two quotes of a String
\* left out; and the source ranges of successive tokens are disjoint and
\* strictly increasing: every position of an earlier token's slice is before
\* every position of a later token's, and a token that takes text starts
\* before every later token.
SlicesAreDisjointSourceText ==
    /\ \A i \in SliceCalls :
          LET tok == returns[i].token
              end == tok.start + Len(tok.src)
          IN  /\ tok.start = returns[i].scanner.start
              /\ end <= source_len
              /\ tok.src = SubSeq(source, tok.start + 1, end)
              /\ IF tok.kind = "String"
                 THEN /\ tok.start - 1 >= CursorBefore(i)
                      /\ chars(tok.start - 1) = "\"" /\ chars(end) = "\""
                      /\ returns[i].scanner.current = end + 1
                 ELSE /\ tok.start >= CursorBefore(i)
                      /\ returns[i].scanner.current = end
    /\ \A i, j \in SliceCalls :
          i < j => /\ Range(i) \cap Range(j) = {}
                   /\ \A a \in Range(i) : \A b \in Range(j) : a < b
                   /\ returns[i].token.start + Len(returns[i].token.src)
                         <= returns[j].token.start
                   /\ returns[i].token.kind # "Eof"
                         => returns[i].token.start < returns[j].token.start

\* A source all of whose chars take one byte.
OneByteSource == \A i \in 1..source_len : Utf8Len(source[i]) = 1

\* What holds of C15 in the code: the slices are the source text for the
\* sources in which every char takes one byte.
OneByteSlicesAreSourceText == OneByteSource => SlicesAreDisjointSourceText

\* The line counter before the i-th scan_token call.
LineBefore(i) == IF i = 1 THEN 1 ELSE returns[i - 1].scanner.line

\* C16: the lines of successive tokens never decrease: the line counter
\* starts at 1 and never goes down, and every token, Error and Eof tokens
\* included, carries the value the counter has when the token is made.
TokenLinesNeverDecrease ==
    /\ scanner.line >= 1
    /\ \A i \in Calls :
          /\ returns[i].scanner.line >= LineBefore(i)
          /\ ~IsPanic(returns[i]) => returns[i].token.line = returns[i].scanner.line
    /\ \A i, j \in Calls :
          (i < j /\ ~IsPanic(returns[i]) /\ ~IsPanic(returns[j]))
              => returns[i].token.line <= returns[j].token.line

\* C16 witness: an Error token and then an Eof token were returned on a
\* later line than a token before them.
ErrorOnLaterLine ==
    \E i, j \in Calls :
        /\ i < j /\ j < Len(returns)
        /\ returns[i].token.kind \notin {"Error", "Panic"}
        /\ returns[j].token.kind = "Error"
        /\ returns[i].token.line < returns[j].token.line
        /\ returns[j + 1].token.kind = "Eof"

\* Every call that returned a token other than Eof left the cursor further
\* on than it found it.
TokenCallsAdvance ==
    \A i \in Calls :
        returns[i].token.kind \notin {"Eof", "Panic"} =>
            CursorBefore(i) < returns[i].scanner.current

\* The calls that returned Eof.
EofReturns == {i \in Calls : returns[i].token.kind = "Eof"}

\* C23: every scan_token call that returns a token other than Eof, Error
\* tokens included, strictly advances the cursor, so that Eof is returned
\* after at most source_len + 1 calls: once the calls have ended, or
\* source_len + 1 of them were made, one of the first source_len + 1 calls
\* has returned Eof.
EofWithinLenPlusOneCalls ==
    /\ TokenCallsAdvance
    /\ scanner.panicked \/ Len(returns) > source_len =>
          \E i \in EofReturns : i <= source_len + 1

\* What holds of C23 in the code: the calls that return a token other than
\* Eof advance the cursor, and a source none of whose calls panics gives Eof
\* within source_len + 1 calls.
EofWithinLenPlusOneCallsUnlessPanic ==
    /\ TokenCallsAdvance
    /\ ~scanner.panicked /\ Len(returns) > source_len =>
          \E i \in EofReturns : i <= source_len + 1

(***************************************************************************)
(* Properties of the parser, checked under ParseSpec.                      *)
(***************************************************************************)
RECURSIVE LineEnd(_)
\* The index of the first newline at or after i, or source_len.
LineEnd(i) == IF i >= source_len \/ chars(i) = "\n" THEN i ELSE LineEnd(i + 1)

\* The text from index i on is whitespace, single-line comments (a ';' not
\* followed by '#', up to the end of the line) and closed block comments.
RECURSIVE OnlyBlankFrom(_)
OnlyBlankFrom(i) ==
    \/ i >= source_len
    \/ chars(i) \in PlainWhitespace /\ OnlyBlankFrom(i + 1)
    \/ chars(i) = ";" /\ chars(i + 1) # "#" /\ OnlyBlankFrom(LineEnd(i))
    \/ \E j \in 0..source_len : ClosedAt(i, j) /\ OnlyBlankFrom(j + 2)

\* C2: a source of whitespace and comments only parses to Ok with an empty
\* Program, and no error is recorded.
BlankSourceParsesEmpty ==
    OnlyBlankFrom(0) =>
        /\ pc # "panicked"
        /\ ~had_error /\ errlog = <<>>
        /\ pc = "done" => result = Ok(<<>>)

\* The diagnostic error_at composes for its token and message, by the three
\* cases of its location.
DiagnosticOf(e) ==
    <<"[line ">> \o Decimal(e.token.line) \o <<"] Error">>
    \o (CASE e.token.kind = "Eof" -> <<" at end">>
          [] e.token.kind = "Error" -> e.token.src
          [] OTHER -> <<" at '">> \o e.token.src \o <<"'">>)
    \o <<": ">> \o e.message

\* C3: at most one diagnostic is recorded during a parse: the first error_at
\* call sets panic_mode, had_error and last_error, the later calls change
\* none of them, and the Err of parse carries the diagnostic of the first.
FirstErrorIsKept ==
    /\ panic_mode = (errlog # <<>>)
    /\ had_error = (errlog # <<>>)
    /\ last_error = IF errlog = <<>> THEN <<>> ELSE DiagnosticOf(errlog[1])
    /\ result.kind = "Err" => errlog # <<>> /\ result.error = DiagnosticOf(errlog[1])

\* C3 witness: parse returned Err after two or more error_at calls.
ErrAfterTwoErrors == result.kind = "Err" /\ Len(errlog) >= 2

\* What C4 says apart from the forms attempted: parse returns Err exactly
\* when an error was recorded, the Err carries no Program, and the program
\* has the forms it had when the first error was recorded.
ErrIffErrorRecorded ==
    /\ pc = "done" => /\ result.kind \in {"Ok", "Err"}
                      /\ (result.kind = "Err") = (errlog # <<>>)
    /\ result.kind = "Err" => DOMAIN result = {"kind", "error"}
    /\ result.kind = "Ok" => result.program = program
    /\ errlog # <<>> => Len(program) = errlog[1].forms

\* C4 as claimed: and no top-level form is entered once an error is recorded.
NoFormAfterError == ErrIffErrorRecorded /\ late_forms = 0

\* C4 as amended: and at most one top-level form is entered once an error
\* is recorded, the first one, after a lexical error at the start of the
\* source; it is never appended.
NoFormAppendedAfterError ==
    /\ ErrIffErrorRecorded
    /\ late_forms <= 1
    /\ late_forms = 1 => Len(top_starts) = 1 /\ errlog[1].token.kind = "Error"
                         /\ program = <<>>

\* C4 witness: parse returned Err, and a form had been entered after the
\* error was recorded.
ErrWithLateForm == result.kind = "Err" /\ late_forms = 1

BadTopStarts ==
    {k \in 1..Len(top_starts) : top_starts[k].kind \notin {"LeftParen", "Eof"}}

ExpectedLeftParenAt(t) ==
    <<"[line ">> \o Decimal(t.line) \o <<"] Error", " at '">> \o t.src
    \o <<"'", ": ", "Expected ", "LeftParen", ", but get ", t.kind>>

\* A top-level form that starts with another token than '(' makes the parse
\* fail and leaves the token as the lookahead.
BadTopStartFails(k) ==
    /\ had_error
    /\ current = top_starts[k]
    /\ pc = "done" => result.kind = "Err"

\* C5 as claimed: a top-level form that starts with a token other than '('
\* fails the parse with "Expected LeftParen, but get <kind>" at that token,
\* which is not consumed.
TopLevelMustBeList ==
    \A k \in BadTopStarts :
        /\ BadTopStartFails(k)
        /\ last_error = ExpectedLeftParenAt(top_starts[k])

\* C5 as amended: .. unless a lexical error was recorded before the form
\* started, whose diagnostic is then the one kept.
TopLevelMustBeListUnlessLexicalError ==
    \A k \in BadTopStarts :
        /\ BadTopStartFails(k)
        /\ \/ last_error = ExpectedLeftParenAt(top_starts[k])
           \/ /\ k = 1
              /\ errlog[1].token.kind = "Error"
              /\ last_error = DiagnosticOf(errlog[1])

\* C5 witness: parse returned Err for a form that starts with a literal.
ErrAtBareLiteral ==
    /\ result.kind = "Err"
    /\ BadTopStarts # {}
    /\ result.error = ExpectedLeftParenAt(top_starts[Len(top_starts)])

Openers == {"(", "[", "{"}

CloserOf(c) == CASE c = "(" -> ")" [] c = "[" -> "]" [] c = "{" -> "}"

RECURSIVE DepthAfter(_)
\* The number of lists open after the first i characters of a source of brackets.
DepthAfter(i) ==
    IF i = 0 THEN 0
    ELSE DepthAfter(i - 1) + (IF source[i] \in Openers THEN 1 ELSE -1)

\* The position of the closer that ends the list opened at position i.
MatchOf(i) ==
    CHOOSE j \in (i + 1)..source_len :
        /\ DepthAfter(j) = DepthAfter(i) - 1
        /\ \A k \in (i + 1)..(j - 1) : DepthAfter(k) >= DepthAfter(i)

\* A source of brackets only, balanced, every list closed by the closer of
\* its opener, every top-level list a '(' list.
WellFormedBrackets ==
    /\ \A i \in 1..source_len : source[i] \in NestAlphabet
    /\ \A i \in 0..source_len : DepthAfter(i) >= 0
    /\ DepthAfter(source_len) = 0
    /\ \A i \in 1..source_len :
          source[i] \in Openers =>
              /\ source[MatchOf(i)] = CloserOf(source[i])
              /\ DepthAfter(i) = 1 => source[i] = "("

ShapeType(c) == CASE c = "(" -> "FunctionCall" [] c = "[" -> "Array" [] c = "{" -> "Map"

RECURSIVE ShapeItems(_, _)
\* The nodes of the lists that stand between the positions from and to.
ShapeItems(from, to) ==
    IF from > to THEN <<>>
    ELSE <<[type |-> ShapeType(source[from]),
            items |-> ShapeItems(from + 1, MatchOf(from) - 1)]>>
         \o ShapeItems(MatchOf(from) + 1, to)

RECURSIVE ShapeForms(_, _)
ShapeForms(from, to) ==
    IF from > to THEN <<>>
    ELSE <<ShapeItems(from + 1, MatchOf(from) - 1)>> \o ShapeForms(MatchOf(from) + 1, to)

\* C6: a well-formed source of balanced brackets parses to Ok, and the tree
\* has the shape of the source: one node per opener, of the opener's kind,
\* nested as in the source, its children in source order.
ShapeRoundTrips ==
    WellFormedBrackets =>
        /\ pc # "panicked"
        /\ ~had_error
        /\ pc = "done" => result = Ok(ShapeForms(1, source_len))

\* C6 witness: the parse of a form that holds an array that holds a list
\* has returned.
NestedShapeParsed ==
    /\ WellFormedBrackets
    /\ pc = "done"
    /\ Len(program) = 1
    /\ Len(program[1]) = 1
    /\ program[1][1].type = "Array"
    /\ program[1][1].items # <<>>

\* C7 as claimed: every diagnostic is "[line N] Error<location>: <message>"
\* with N the line of the offending token and <location> " at end" for Eof
\* and " at '<slice>'" for every other token, Error tokens included.
DiagnosticFormat ==
    errlog # <<>> =>
        last_error =
            <<"[line ">> \o Decimal(errlog[1].token.line) \o <<"] Error">>
            \o (IF errlog[1].token.kind = "Eof" THEN <<" at end">>
                ELSE <<" at '">> \o errlog[1].token.src \o <<"'">>)
            \o <<": ">> \o errlog[1].message

\* C7 as amended: .. and for an Error token <location> is the token's slice,
\* its message, as it is: no " at '" before it and no quote after it.
DiagnosticFormatWithErrorTokens ==
    errlog # <<>> =>
        last_error =
            <<"[line ">> \o Decimal(errlog[1].token.line) \o <<"] Error">>
            \o (IF errlog[1].token.kind = "Eof" THEN <<" at end">>
                ELSE IF errlog[1].token.kind = "Error" THEN errlog[1].token.src
                ELSE <<" at '">> \o errlog[1].token.src \o <<"'">>)
            \o <<": ">> \o errlog[1].message

\* C7 witness: parse returned the diagnostic of a lexical error.
ErrAtErrorToken == result.kind = "Err" /\ errlog[1].token.kind = "Error"

RECURSIVE AnonymousFunctions(_)
\* The number of AnonymousFunction nodes in a list of nodes, at any depth.
AnonymousFunctions(items) ==
    IF items = <<>> THEN 0
    ELSE (IF items[1].type = "AnonymousFunction" THEN 1 ELSE 0)
         + (IF "items" \in DOMAIN items[1] THEN AnonymousFunctions(items[1].items) ELSE 0)
         + AnonymousFunctions(Tail(items))

RECURSIVE AnonymousFunctionsOfForms(_)
AnonymousFunctionsOfForms(forms) ==
    IF forms = <<>> THEN 0
    ELSE AnonymousFunctions(forms[1]) + AnonymousFunctionsOfForms(Tail(forms))

RECURSIVE AnonymousFunctionsOfFrames(_)
\* The AnonymousFunction nodes built or being built by the active calls.
AnonymousFunctionsOfFrames(fs) ==
    IF fs = <<>> THEN 0
    ELSE (IF fs[1].wrap = "AnonymousFunction" THEN 1 ELSE 0)
         + AnonymousFunctions(fs[1].items) + AnonymousFunctionsOfFrames(Tail(fs))

ListDispatches == {k \in 1..Len(dispatches) : dispatches[k].kind = "LeftParen"}

BadDispatches == {k \in 1..Len(dispatches) : dispatches[k].kind # "LeftParen"}

\* A '#' followed by '(' gives an AnonymousFunction node: while the lists are
\* built there is one such node, or one list being parsed for it, for every
\* '#' '(' seen, and the Program returned has one for every '#' seen.
DispatchedListIsAnonymousFunction ==
    /\ pc \in {"list", "loop"} =>
          AnonymousFunctionsOfFrames(frames) + AnonymousFunctionsOfForms(program)
              = Cardinality(ListDispatches)
    /\ result.kind = "Ok" =>
          /\ BadDispatches = {}
          /\ AnonymousFunctionsOfForms(result.program) = Len(dispatches)

UnexpectedTokenAt(tok) ==
    <<"[line ">> \o Decimal(tok.line) \o <<"] Error">>
    \o (IF tok.kind = "Eof" THEN <<" at end">> ELSE <<" at '">> \o tok.src \o <<"'">>)
    \o <<": ", "Unexpected token ", tok.kind>>

\* A '#' followed by another token than '(' makes the parse fail.
BadDispatchFails(k) ==
    /\ had_error
    /\ pc \notin {"list", "loop"}
    /\ pc = "done" => result.kind = "Err"

\* C17 as claimed: a '#' followed by '(' gives AnonymousFunction(list), and a
\* '#' followed by any other token, Eof included, makes parse fail with the
\* message "Unexpected token <kind>", <kind> the kind of that token.
DispatchNeedsList ==
    /\ DispatchedListIsAnonymousFunction
    /\ \A k \in BadDispatches :
          /\ BadDispatchFails(k)
          /\ last_error = UnexpectedTokenAt(dispatches[k])

\* C17 as amended: .. unless a lexical error was recorded earlier in the
\* parse, whose diagnostic is then the one kept.
DispatchNeedsListUnlessLexicalError ==
    /\ DispatchedListIsAnonymousFunction
    /\ \A k \in BadDispatches :
          /\ BadDispatchFails(k)
          /\ \/ last_error = UnexpectedTokenAt(dispatches[k])
             \/ /\ errlog[1].token.kind = "Error"
                /\ last_error = DiagnosticOf(errlog[1])

\* C17 witness: parse returned Err with "Unexpected token" for the token
\* after a '#', after the list of an AnonymousFunction was entered for an
\* earlier '#'.
ErrAfterDispatch ==
    /\ result.kind = "Err"
    /\ ListDispatches # {}
    /\ BadDispatches # {}
    /\ result.error = UnexpectedTokenAt(dispatches[Len(dispatches)])

\* The lookahead moved on: to a later token, or to Eof.
LookaheadMoved ==
    \/ current'.start > current.start
    \/ current'.kind = "Eof" /\ current.kind # "Eof"

\* How far the call of parse() has come.
Rank(at) ==
    CASE at = "new" -> 0
      [] at \in {"loop", "list"} -> 1
      [] at = "break" -> 2
      [] at \in {"done", "panicked"} -> 3

\* Every step of parse() consumes a token, ends a loop (the loop of an
\* expression_list, whose call returns, or the loop of parse), or ends the
\* call; and a turn of a loop that does not end the loop consumes a token.
\* As a source has finitely many tokens, and a list is entered only by
\* consuming its opener, no run of parse() goes on for ever.
EveryStepProgresses ==
    [][/\ Rank(pc') >= Rank(pc)
       /\ \/ LookaheadMoved
          \/ Len(frames') < Len(frames)
          \/ Rank(pc') > Rank(pc)
       /\ (pc \in {"loop", "list"} /\ pc' \in {"loop", "list"}
              /\ Len(frames') >= Len(frames)) => LookaheadMoved]_vars

\* C20: for every source parse() terminates and returns Ok(Program) or
\* Err(diagnostic): the call never ends in another way (a panic), is never
\* stuck inside a loop, and what it returns is Ok or Err.
ParseReturnsResult ==
    /\ pc # "panicked"
    /\ pc = "list" => frames # <<>>
    /\ pc = "done" => result.kind \in {"Ok", "Err"}

CloserKindOf(start_token) ==
    CASE start_token = "LeftParen" -> "RightParen"
      [] start_token = "LeftSquare" -> "RightSquare"
      [] start_token = "LeftBrace" -> "RightBrace"

\* The lists whose loop ended at Eof, innermost first.
UnclosedEvents == {k \in 1..Len(events) : events[k].what = "unclosed"}

\* The diagnostic of a list that ended at Eof, with the words between the
\* two kinds as given.
ExpectedCloserAtEnd(e, words) ==
    <<"[line ">> \o Decimal(e.token.line)
    \o <<"] Error", " at end", ": ", "Expected ", CloserKindOf(e.start_token),
         words, "Eof">>

\* The error_at call of a list that ended at Eof: at the Eof token, with the
\* closer of the list's opener in the message; and parse fails.
UnclosedListRecorded(e, words) ==
    /\ e.token.kind = "Eof"
    /\ Len(errlog) > e.errors
    /\ errlog[e.errors + 1].token = e.token
    /\ errlog[e.errors + 1].message
          = <<"Expected ", CloserKindOf(e.start_token), words, "Eof">>
    /\ had_error
    /\ pc = "done" => result.kind = "Err"

CloserKinds == {"RightParen", "RightSquare", "RightBrace"}

RECURSIVE TokensUntil(_, _)
\* The tokens scan_token returns from the scanner s on, up to the scanner
\* state target, the first Eof or a panic.
TokensAfter(r, target) ==
    IF r.scanner.panicked \/ r.token.kind = "Eof" THEN <<r.token>>
    ELSE <<r.token>> \o TokensUntil(r.scanner, target)

TokensUntil(s, target) ==
    IF s = target THEN <<>> ELSE TokensAfter(scan_token(s), target)

\* The tokens of the whole source.
SourceTokens == TokensAfter(scan_token(ScannerNew), ScannerPanic(ScannerNew))

NotErrorToken(tok) == tok.kind # "Error"

\* The tokens of the source that are no Error tokens, up to the first Eof or
\* a panic: the lookaheads Parser::advance can stop at.
Lookaheads == SelectSeq(SourceTokens, NotErrorToken)

\* No list: the tokens before the end are not the start of a program.
Refused == <<"Refused">>

RECURSIVE OpenAtEnd(_, _, _)
\* The kinds of the openers of the lists that are open where the tokens end
\* at Eof, the outermost first, read off the tokens from the i-th on with
\* the lists open before it given; Refused when a token before the Eof is
\* one that no form has in its place (a top-level form that does not start
\* with '(', a closer that is not the one of the innermost list, a '#' with
\* another token than '(' or Eof after it), or when the scanner panics.
OpenAtEnd(toks, i, open) ==
    IF toks[i].kind = "Eof" THEN open
    ELSE IF open = <<>> /\ toks[i].kind # "LeftParen" THEN Refused
    ELSE IF toks[i].kind \in OpenerKinds
    THEN OpenAtEnd(toks, i + 1, Append(open, toks[i].kind))
    ELSE IF toks[i].kind \in CloserKinds
    THEN IF CloserKindOf(open[Len(open)]) = toks[i].kind
         THEN OpenAtEnd(toks, i + 1, SubSeq(open, 1, Len(open) - 1))
         ELSE Refused
    ELSE IF toks[i].kind = "Dispatch"
    THEN IF toks[i + 1].kind \in {"LeftParen", "Eof"}
         THEN OpenAtEnd(toks, i + 1, open)
         ELSE Refused
    ELSE IF toks[i].kind \in LiteralKinds THEN OpenAtEnd(toks, i + 1, open)
    ELSE Refused

\* The input ends inside an unclosed list: the lists open at the Eof.
EndsInsideList(open) == open # <<>> /\ open # Refused

\* The last token before the Eof is a '#'.
DispatchAtEnd(toks) == Len(toks) >= 2 /\ toks[Len(toks) - 1].kind = "Dispatch"

\* The innermost of the lists open at the Eof, ended by the Eof token.
InnermostAtEnd(toks, open) ==
    [token |-> toks[Len(toks)], start_token |-> open[Len(open)]]

\* The first error_at call of the parse was made for an Error token.
FirstErrorIsLexical == errlog # <<>> /\ errlog[1].token.kind = "Error"

\* The claim on a parse that has returned, for the tokens of its source and
\* the lists open at their end: every list open ended at the Eof, the
\* innermost first, and parse returned Err with the diagnostic of the
\* innermost one.
EndInsideListAsClaimed(toks, open) ==
    EndsInsideList(open) =>
        /\ result.kind = "Err"
        /\ Cardinality(UnclosedEvents) = Len(open)
        /\ UnclosedEvents # {}
        /\ events[Min(UnclosedEvents)].start_token = open[Len(open)]
        /\ result.error = ExpectedCloserAtEnd(InnermostAtEnd(toks, open), ", but got ")

\* The same as the code does it: when a '#' is the last token no list ends
\* at the Eof, the Err of expression being handed up by the ? of each list
\* to parse, which records "Unexpected token Eof"; and after a lexical
\* error its diagnostic is the one returned, and parse may have left its
\* loop before the unclosed list.
EndInsideListAsCoded(toks, open) ==
    EndsInsideList(open) =>
        /\ result.kind = "Err"
        /\ FirstErrorIsLexical => result.error = DiagnosticOf(errlog[1])
        /\ ~FirstErrorIsLexical /\ DispatchAtEnd(toks) =>
              /\ UnclosedEvents = {}
              /\ result.error = UnexpectedTokenAt(toks[Len(toks)])
        /\ ~FirstErrorIsLexical /\ ~DispatchAtEnd(toks) =>
              /\ Cardinality(UnclosedEvents) = Len(open)
              /\ UnclosedEvents # {}
              /\ events[Min(UnclosedEvents)].start_token = open[Len(open)]
              /\ result.error
                    = ExpectedCloserAtEnd(InnermostAtEnd(toks, open), ", but get ")

\* C21 as claimed: when the input ends inside an unclosed list the error
\* "Expected <end>, but got Eof" is recorded, <end> the closer of the
\* innermost unclosed opener, the diagnostic is located " at end", and parse
\* returns Err.
UnclosedListButGot ==
    /\ \A k \in UnclosedEvents :
          /\ UnclosedListRecorded(events[k], ", but got ")
          /\ last_error = ExpectedCloserAtEnd(events[Min(UnclosedEvents)], ", but got ")
    /\ pc = "done" =>
          EndInsideListAsClaimed(Lookaheads, OpenAtEnd(Lookaheads, 1, <<>>))

\* C21 as amended: when the input ends inside an unclosed list and no token
\* before the end is refused, parse returns Err; each list whose loop ends
\* at the Eof calls error_at with "Expected <end>, but get Eof" at the Eof,
\* and the diagnostic returned is the one of the innermost unclosed list,
\* located " at end", unless the last token before the end is a '#', when no
\* list's loop ends and the diagnostic is "Unexpected token Eof", located
\* " at end", or a lexical error was recorded before, whose diagnostic is
\* then the one returned, whether or not parse has got to the unclosed list.
UnclosedListButGet ==
    /\ \A k \in UnclosedEvents :
          /\ UnclosedListRecorded(events[k], ", but get ")
          /\ \/ last_error = ExpectedCloserAtEnd(events[Min(UnclosedEvents)], ", but get ")
             \/ /\ errlog[1].token.kind = "Error"
                /\ last_error = DiagnosticOf(errlog[1])
    /\ pc = "done" =>
          EndInsideListAsCoded(Lookaheads, OpenAtEnd(Lookaheads, 1, <<>>))

\* C21 witness: the input ended inside an array inside a form, and parse
\* returned the diagnostic of the array.
ErrAtUnclosedArray ==
    /\ result.kind = "Err"
    /\ EndsInsideList(OpenAtEnd(Lookaheads, 1, <<>>))
    /\ ~DispatchAtEnd(Lookaheads)
    /\ Cardinality(UnclosedEvents) >= 2
    /\ events[1].start_token = "LeftSquare"
    /\ result.error = ExpectedCloserAtEnd(events[1], ", but get ")

RECURSIVE ClosersMatch(_, _)
\* Every closer among the tokens closes the innermost list open, the kinds
\* of the openers of the lists open being given, and is of the kind of its
\* opener.
ClosersMatch(toks, open) ==
    IF toks = <<>> THEN TRUE
    ELSE IF Head(toks).kind \in OpenerKinds
    THEN ClosersMatch(Tail(toks), Append(open, Head(toks).kind))
    ELSE IF Head(toks).kind \in CloserKinds
    THEN /\ open # <<>>
         /\ CloserKindOf(open[Len(open)]) = Head(toks).kind
         /\ ClosersMatch(Tail(toks), SubSeq(open, 1, Len(open) - 1))
    ELSE ClosersMatch(Tail(toks), open)

\* The tokens expression refused inside a list.
UnexpectedEvents == {k \in 1..Len(events) : events[k].what = "unexpected"}

\* A closer of another kind than the closer of the innermost list makes the
\* parse fail and is left as the lookahead.
WrongCloserFails(e) ==
    /\ e.token.kind \in CloserKinds
    /\ e.token.kind # CloserKindOf(e.start_token)
    /\ had_error
    /\ current = e.token
    /\ pc \in {"break", "done"}
    /\ pc = "done" => result.kind = "Err"

\* parse returns Ok only for a source in which every closer closes a list of
\* its kind.
OkOnlyIfClosersMatch == result.kind = "Ok" => ClosersMatch(SourceTokens, <<>>)

\* C22 as claimed: a list is closed only by the closer of its opener: parse
\* never returns Ok when a closer is of another kind than the opener of the
\* innermost list open or comes with no list open, and a wrong closer inside
\* a list fails with "Unexpected token <closer kind>" located at that closer.
ListClosedByItsCloser ==
    /\ OkOnlyIfClosersMatch
    /\ \A k \in UnexpectedEvents :
          /\ WrongCloserFails(events[k])
          /\ last_error = UnexpectedTokenAt(events[k].token)

\* C22 as amended: .. unless a lexical error was recorded earlier in the
\* parse, whose diagnostic is then the one kept.
ListClosedByItsCloserUnlessLexicalError ==
    /\ OkOnlyIfClosersMatch
    /\ \A k \in UnexpectedEvents :
          /\ WrongCloserFails(events[k])
          /\ \/ last_error = UnexpectedTokenAt(events[k].token)
             \/ /\ errlog[1].token.kind = "Error"
                /\ last_error = DiagnosticOf(errlog[1])

\* C22 witness: an array inside a form met a ')', and parse returned Err
\* with "Unexpected token RightParen" located at the ')'.
ErrAtWrongCloser ==
    /\ result.kind = "Err"
    /\ UnexpectedEvents # {}
    /\ events[1].start_token = "LeftSquare"
    /\ events[1].token.kind = "RightParen"
    /\ result.error = UnexpectedTokenAt(events[1].token)

IsErrorToken(tok) == tok.kind = "Error"

IsLexicalError(e) == e.token.kind = "Error"

\* The Error tokens among the tokens the scanner has returned to the parser.
ScannedErrors(toks) == SelectSeq(toks, IsErrorToken)

\* The error_at calls made for Error tokens.
LexicalErrors == SelectSeq(errlog, IsLexicalError)

\* The diagnostic of an Error token: its message is both the location and
\* the message.
ErrorTokenDiagnostic(tok) ==
    <<"[line ">> \o Decimal(tok.line) \o <<"] Error">> \o tok.src \o <<": ">> \o tok.src

\* One error_at call was made for each of the Error tokens, in their order,
\* with the token's message; the diagnostic kept is the one of the first of
\* them unless another error was recorded before; none of them is the
\* lookahead; and parse returns Err.
ErrorTokensEscalated(errors) ==
    /\ Len(LexicalErrors) = Len(errors)
    /\ \A k \in 1..Len(errors) :
          /\ LexicalErrors[k].token = errors[k]
          /\ LexicalErrors[k].message = errors[k].src
    /\ errors # <<>> =>
          /\ had_error
          /\ last_error # <<>>
          /\ IsLexicalError(errlog[1]) => last_error = ErrorTokenDiagnostic(errors[1])
          /\ pc = "done" => result.kind = "Err" /\ result.error = last_error

\* C24: an Error token the scanner returns during parse is escalated at
\* once: a diagnostic with the token's message is recorded unless one was
\* recorded before, the Error token is skipped and parse returns Err; and
\* once Parser::advance has returned the lookahead is never of kind Error or
\* Init (a call of advance in which scan_token panics does not return, and
\* leaves the lookahead it found or the Error token it was skipping).
ErrorTokenEscalated ==
    /\ ErrorTokensEscalated(ScannedErrors(TokensUntil(ScannerNew, scanner)))
    /\ pc = "new" => current.kind = "Init"
    /\ pc # "new" /\ ~scanner.panicked => current.kind \notin {"Error", "Init"}

\* C24 witness: parse returned Err after the scanner returned Error tokens
\* on two lines, with the diagnostic of the first.
ErrAfterTwoErrorTokens ==
    /\ result.kind = "Err"
    /\ Len(LexicalErrors) >= 2
    /\ LexicalErrors[1].token.line # LexicalErrors[2].token.line
    /\ result.error = ErrorTokenDiagnostic(LexicalErrors[1].token)

\* had_error and panic_mode are equal, and true exactly when a diagnostic is
\* kept in last_error.
FlagsAgree ==
    /\ had_error = panic_mode
    /\ had_error = (last_error # <<>>)

\* C25: in every reachable state of the parser had_error equals panic_mode
\* and both are true exactly when last_error is not empty, and no step
\* resets a flag that is set.
FlagsAgreeAndStay ==
    /\ []FlagsAgree
    /\ [][(had_error => had_error') /\ (panic_mode => panic_mode')]_vars

\* C25 witness: both flags are set and a diagnostic is kept while the parse
\* goes on inside a nested list.
FlagsSetInsideList ==
    /\ pc = "list"
    /\ Len(frames) >= 2
    /\ had_error
    /\ panic_mode
    /\ last_error # <<>>

RECURSIVE EmptyNodes(_)
\* The number of Empty nodes in a list of nodes, at any depth.
EmptyNodes(items) ==
    IF items = <<>> THEN 0
    ELSE (IF items[1].type = "Empty" THEN 1 ELSE 0)
         + (IF "items" \in DOMAIN items[1] THEN EmptyNodes(items[1].items) ELSE 0)
         + EmptyNodes(Tail(items))

RECURSIVE EmptyNodesOfForms(_)
EmptyNodesOfForms(forms) ==
    IF forms = <<>> THEN 0
    ELSE EmptyNodes(forms[1]) + EmptyNodesOfForms(Tail(forms))

RECURSIVE EmptyNodesOfFrames(_)
\* The Empty nodes in the lists the active calls are building.
EmptyNodesOfFrames(fs) ==
    IF fs = <<>> THEN 0
    ELSE EmptyNodes(fs[1].items) + EmptyNodesOfFrames(Tail(fs))

\* No list built or being built has an Empty node, a Program returned has
\* none, and a parse that met Eof after a '#' does not return Ok.
NoEmptyNodeBuilt ==
    /\ EmptyNodesOfFrames(frames) = 0
    /\ EmptyNodesOfForms(program) = 0
    /\ result.kind = "Ok" =>
          /\ EmptyNodesOfForms(result.program) = 0
          /\ \A k \in 1..Len(dispatches) : dispatches[k].kind # "Eof"

\* With Eof as the lookahead the loop of expression_list does not call
\* expression: the only step is the end of the loop, which returns from the
\* list.
LoopEndsAtEof ==
    pc = "list" /\ current.kind = "Eof" =>
        /\ Len(frames') < Len(frames)
        /\ events' = Append(events, Event("unclosed"))

\* C26: no Program parse returns has an Empty node at any depth: the loop of
\* expression_list never calls expression with Eof as the lookahead, and an
\* Eof after '#' is an error, so that the Eof -> Empty branch of expression
\* gives no node to a successful result.
NoEmptyNodeInProgram == []NoEmptyNodeBuilt /\ [][LoopEndsAtEof]_vars

\* C26 witness: parse returned Ok with a Program that has the list of an
\* AnonymousFunction inside a form, after a list inside it was closed.
OkWithAnonymousFunction ==
    /\ result.kind = "Ok"
    /\ Len(result.program) >= 1
    /\ AnonymousFunctionsOfForms(result.program) >= 1
    /\ EmptyNodesOfForms(result.program) = 0

(***************************************************************************)
(* Properties of the emitter, checked under EmitSpec.                      *)
(***************************************************************************)
RECURSIVE ShiftedRight(_, _)
\* v shifted right by n groups of seven bits.
ShiftedRight(v, n) == IF n = 0 THEN v ELSE ShiftedRight(v \div 128, n - 1)

RECURSIVE LebDecode(_)
\* The standard decoder: the low seven bits of every byte, least significant
\* group first, up to the first byte whose high bit is clear; `used` is the
\* number of bytes read, 0 if the bytes end before such a byte.
LebDecode(bytes) ==
    IF bytes = <<>> THEN [value |-> 0, used |-> 0]
    ELSE IF bytes[1] < 128 THEN [value |-> bytes[1], used |-> 1]
    ELSE LET rest == LebDecode(Tail(bytes))
         IN  [value |-> (bytes[1] - 128) + 128 * rest.value,
              used |-> IF rest.used = 0 THEN 0 ELSE rest.used + 1]

\* C18: unsigned_led128(v) is the canonical unsigned LEB128 encoding of v:
\* not empty, the high bit set in every byte but the last, the 7-bit groups
\* of v from the least significant on, no group of zeros at the end, and the
\* standard decoder reads all the bytes and gives v.
Leb128IsCanonical ==
    leb_out # <<>> =>
        /\ \A i \in 1..Len(leb_out) : leb_out[i] \in 0..255
        /\ \A i \in 1..(Len(leb_out) - 1) : leb_out[i] >= 128
        /\ leb_out[Len(leb_out)] < 128
        /\ \A i \in 1..Len(leb_out) :
              leb_out[i] % 128 = ShiftedRight(value, i - 1) % 128
        /\ Len(leb_out) > 1 => leb_out[Len(leb_out)] # 0
        /\ ShiftedRight(value, Len(leb_out)) = 0
        /\ LebDecode(leb_out) = [value |-> value, used |-> Len(leb_out)]

\* C18 witness: 16384 was encoded, in three bytes.
Leb128Of16384 == value = 16384 /\ leb_out = <<128, 128, 1>>

\* C19: encode_vector(b) is unsigned_led128(len(b)) followed by b: it begins
\* with the encoding of the length, ends with the bytes of b in their order,
\* and is len(b) + len(unsigned_led128(len(b))) bytes long.
VectorIsLengthThenData ==
    vec_out # <<>> =>
        LET prefix == Len(unsigned_led128(Len(data)))
        IN  /\ Len(vec_out) = Len(data) + prefix
            /\ SubSeq(vec_out, 1, prefix) = unsigned_led128(Len(data))
            /\ SubSeq(vec_out, prefix + 1, Len(vec_out)) = data
            /\ LebDecode(vec_out) = [value |-> Len(data), used |-> prefix]

\* C19 witness: a vector of 128 bytes or more was encoded, whose length
\* takes two bytes.
LongVectorEncoded ==
    /\ Len(data) >= 128
    /\ Len(vec_out) = Len(data) + 2
    /\ vec_out[1] >= 128

====
